---------------------------- MODULE Spec2Model ----------------------------
(***************************************************************************)
(* A model of quantumsim's circuit layer (quantumsim/circuit.py): the gate *)
(* objects, the circuit scheduler (add_waiting_gates, order), the          *)
(* measurement samplers and the application of gates to a state engine.    *)
(*                                                                         *)
(* Python values are represented as follows.                               *)
(*   - None is the string None; qubit / bit identities are strings, and   *)
(*     the empty string is the identity that Python treats as false.      *)
(*   - An optional number or iterable is a sequence of length 0 (None) or *)
(*     1 (the value).                                                      *)
(*   - Times are whole numbers of ticks, two ticks per input step, so     *)
(*     that every midpoint the scheduler computes is a whole number.      *)
(*   - Probabilities are rationals <<numerator, denominator>>.            *)
(***************************************************************************)
EXTENDS Integers, Sequences, FiniteSets, TLC

VARIABLES
    qubits,                 \* Circuit.qubits: sequence of Qubit records
    gates,                  \* Circuit.gates: sequence of Gate records
    next_id,                \* identity of the next gate object constructed
    samplers,               \* the sampler (generator) objects, by identity
    classical,              \* sdm.classical: bit identity -> 0/1
    classical_probability,  \* sdm.classical_probability, a rational
    trace,                  \* the calls made so far, in program order
    pc,                     \* Circuit.apply_to: index of the next gate, 0 = idle
    err,                    \* the exception that ended the last call, or None
    last,                   \* the last circuit operation and the gates before it
    ptm_cache,              \* Density._ptm_cache: hash key -> resident operator
    next_obj,               \* identity of the next array object allocated
    dms,                    \* the Density instances, by identity
    threads,                \* the threads inside set_ptm: position and locals
    call                    \* the last call made on a Density, and its result

vars == <<qubits, gates, next_id, samplers, classical, classical_probability,
          trace, pc, err, last, ptm_cache, next_obj, dms, threads, call>>

---------------------------------------------------------------------------
(* Bounds of the model.                                                    *)

MaxGates == 3          \* gates added by hand before order()
MaxTime == 1           \* gate times are 0..MaxTime input steps
MaxWaitGates == 2      \* gates added by hand before add_waiting_gates()
MaxWaitTime == 3       \* their times, and tmin and tmax, are 0..MaxWaitTime steps
ProbDen == 4           \* probabilities are multiples of 1/ProbDen
MaxExecGates == 2      \* gates of a circuit that is applied
MaxSends == 3          \* steps of a sampler

---------------------------------------------------------------------------
(* Python values.                                                          *)

None == "None"

\* The bit identities; "" is the one for which bool(identity) is False.
Names == {"", "a", "b"}

\* bool(x) for x None or a string.
Truthy(x) == x # None /\ x # ""

Range(s) == {s[i] : i \in 1..Len(s)}

Min(S) == CHOOSE x \in S : \A y \in S : x <= y

\* An input time of t steps, in ticks: two ticks per step, so that the
\* midpoint of two input times is a whole number of ticks.
Ticks(t) == 2 * t

\* x / 2 for an even x.
Half(x) == x \div 2

\* The threshold 1e-6 of add_waiting_gates: one input step.
Eps == Ticks(1)

\* np.inf, as a number larger than every finite time constant of the model.
Inf == 1000000

\* The floor 1e-10 of Qubit.t1 and Qubit.t2, in units of 1e-10.
T1Floor == 1

Max2(a, b) == IF a >= b THEN a ELSE b

---------------------------------------------------------------------------
(* Qubit and Gate objects.                                                 *)

\* Qubit.__init__
Qubit(name, t1, t2) ==
    [name |-> name, t1 |-> Max2(t1, T1Floor), t2 |-> Max2(t2, T1Floor)]

\* Gate.__init__: the guard is added to involved_qubits only when truthy.
Gate(id, time, conditional_bit) ==
    [id |-> id, kind |-> "Gate", is_measurement |-> FALSE, time |-> time,
     involved_qubits |-> IF Truthy(conditional_bit) THEN <<conditional_bit>>
                         ELSE <<>>,
     annotation |-> None, conditional_bit |-> conditional_bit,
     method_name |-> None, method_params |-> <<>>,
     bit |-> None, output_bit |-> None, real_output_bit |-> None,
     sampler |-> 0, measurements |-> <<>>,
     duration |-> 0, t1 |-> Inf, t2 |-> Inf]

\* Hadamard.__init__
Hadamard(id, bit, time, conditional_bit) ==
    [Gate(id, time, conditional_bit) EXCEPT
        !.kind = "Hadamard",
        !.involved_qubits = Append(@, bit),
        !.method_name = "hadamard",
        !.method_params = <<>>]

\* RotateY.__init__
RotateY(id, bit, time, angle, conditional_bit) ==
    [Gate(id, time, conditional_bit) EXCEPT
        !.kind = "RotateY",
        !.involved_qubits = Append(@, bit),
        !.method_name = "rotate_y",
        !.method_params = <<angle>>]

\* CPhase.__init__
CPhase(id, bit0, bit1, time, conditional_bit) ==
    [Gate(id, time, conditional_bit) EXCEPT
        !.kind = "CPhase",
        !.involved_qubits = Append(Append(@, bit0), bit1),
        !.method_name = "cphase",
        !.method_params = <<>>]

\* AmpPhDamp.__init__; method_params stands for
\* {"gamma": 1 - exp(-duration/t1), "lamda": 1 - exp(-duration/t2)}.
AmpPhDamp(id, bit, time, duration, t1, t2, conditional_bit) ==
    [Gate(id, time, conditional_bit) EXCEPT
        !.kind = "AmpPhDamp",
        !.involved_qubits = Append(@, bit),
        !.duration = duration,
        !.t1 = t1,
        !.t2 = t2,
        !.method_name = "amp_ph_damping",
        !.method_params = <<duration, t1, t2>>]

\* Measurement.__init__, up to the choice of the sampler object `sampler`
\* (an index into samplers): output bits are involved only when truthy.
Measurement(id, bit, time, sampler, output_bit, real_output_bit) ==
    LET g0 == Gate(id, time, None)
        q1 == IF Truthy(output_bit) THEN Append(g0.involved_qubits, output_bit)
              ELSE g0.involved_qubits
        q2 == IF Truthy(real_output_bit) THEN Append(q1, real_output_bit)
              ELSE q1
    IN  [g0 EXCEPT
            !.kind = "Measurement",
            !.is_measurement = TRUE,
            !.bit = bit,
            !.output_bit = output_bit,
            !.real_output_bit = real_output_bit,
            !.involved_qubits = Append(q2, bit),
            !.sampler = sampler,
            !.measurements = <<>>]

\* Gate.involves_qubit
involves_qubit(gate, bit) == bit \in Range(gate.involved_qubits)

---------------------------------------------------------------------------
(* Measurement samplers: generator objects.                                *)
(* A sampler is [kind, param, state]: param is `result` of a              *)
(* selection_sampler and the numerator of readout_error (over ProbDen) of *)
(* a uniform_noisy_sampler; state is the generator's state: "created"     *)
(* (not started), "suspended" (at a yield) or "closed" (ended by an       *)
(* exception).                                                             *)

SamplerObj(kind, param) == [kind |-> kind, param |-> param, state |-> "created"]

One == <<1, 1>>

\* A faulty comparison r <= p0/(p0+p1): a draw of 0 is below a probability
\* of 0.
DrawBelow_inclusive(rn, p0, p1) == rn * (p0 + p1) <= p0 * ProbDen

\* r < p0/(p0+p1) for r = rn/ProbDen, with p0 + p1 > 0.
DrawBelow(rn, p0, p1) == rn * (p0 + p1) < p0 * ProbDen

\* selection_sampler: the value of each yield.
selection_sampler(result) == <<result, result, One>>

\* uniform_sampler: one pass of the loop body, rn the random draw.
uniform_sampler(p0, p1, rn) ==
    IF DrawBelow(rn, p0, p1) THEN <<0, 0, One>> ELSE <<1, 1, One>>

\* A faulty uniform_noisy_sampler that flips when the draw is <= the error:
\* it can declare a flip of probability 0.
uniform_noisy_sampler_inclusive(en, p0, p1, rn, rn2) ==
    LET proj == IF DrawBelow(rn, p0, p1) THEN 0 ELSE 1
    IN  IF rn2 <= en
        THEN <<1 - proj, proj, <<en, ProbDen>> >>
        ELSE <<proj, proj, <<ProbDen - en, ProbDen>> >>

\* A faulty uniform_noisy_sampler with the two probabilities exchanged.
uniform_noisy_sampler_swapped(en, p0, p1, rn, rn2) ==
    LET proj == IF DrawBelow(rn, p0, p1) THEN 0 ELSE 1
    IN  IF rn2 < en
        THEN <<1 - proj, proj, <<ProbDen - en, ProbDen>> >>
        ELSE <<proj, proj, <<en, ProbDen>> >>

\* uniform_noisy_sampler: one pass of the loop body, rn and rn2 the two
\* random draws, en the numerator of readout_error.
uniform_noisy_sampler(en, p0, p1, rn, rn2) ==
    LET proj == IF DrawBelow(rn, p0, p1) THEN 0 ELSE 1
    IN  IF rn2 < en
        THEN <<1 - proj, proj, <<en, ProbDen>> >>
        ELSE <<proj, proj, <<ProbDen - en, ProbDen>> >>

\* generator.send(value) (next() is send(None)): value is <<>> for None or
\* <<p0, p1>>.  The result is [s, out, exc]: the generator afterwards, the
\* value yielded (<<>> for None) and the exception raised, or None.
SamplerSend(s, value, rn, rn2) ==
    IF s.state = "closed"
    THEN [s |-> s, out |-> <<>>, exc |-> "StopIteration"]
    ELSE IF s.state = "created" /\ value # <<>>
    THEN [s |-> s, out |-> <<>>, exc |-> "TypeError"]
    ELSE IF s.kind = "selection"
    THEN [s |-> [s EXCEPT !.state = "suspended"],
          out |-> selection_sampler(s.param), exc |-> None]
    ELSE IF s.state = "created"
    THEN \* runs to the first, bare yield
         [s |-> [s EXCEPT !.state = "suspended"], out |-> <<>>, exc |-> None]
    ELSE IF value = <<>>
    THEN \* p0, p1 = None
         [s |-> [s EXCEPT !.state = "closed"], out |-> <<>>, exc |-> "TypeError"]
    ELSE IF s.kind = "uniform"
    THEN [s |-> s, out |-> uniform_sampler(value[1], value[2], rn), exc |-> None]
    ELSE [s |-> s,
          out |-> uniform_noisy_sampler(s.param, value[1], value[2], rn, rn2),
          exc |-> None]

---------------------------------------------------------------------------
(* Circuit.order                                                           *)

\* A faulty sort that keeps one gate per time.
RECURSIVE sorted_by_time_unique(_)
sorted_by_time_unique(gs) ==
    IF gs = <<>> THEN <<>>
    ELSE LET init == sorted_by_time_unique(SubSeq(gs, 1, Len(gs) - 1))
             g == gs[Len(gs)]
             k == Cardinality({i \in 1..Len(init) : init[i].time <= g.time})
         IN  IF \E i \in 1..Len(init) : init[i].time = g.time
             THEN init
             ELSE SubSeq(init, 1, k) \o <<g>> \o SubSeq(init, k + 1, Len(init))

\* A faulty sort that is not stable: a gate goes before the gates of its
\* time that were in the list before it.
RECURSIVE sorted_by_time_unstable(_)
sorted_by_time_unstable(gs) ==
    IF gs = <<>> THEN <<>>
    ELSE LET init == sorted_by_time_unstable(SubSeq(gs, 1, Len(gs) - 1))
             g == gs[Len(gs)]
             k == Cardinality({i \in 1..Len(init) : init[i].time < g.time})
         IN  SubSeq(init, 1, k) \o <<g>> \o SubSeq(init, k + 1, Len(init))

\* sorted(gs, key=lambda g: g.time): a stable sort.
RECURSIVE sorted_by_time(_)
sorted_by_time(gs) ==
    IF gs = <<>> THEN <<>>
    ELSE LET init == sorted_by_time(SubSeq(gs, 1, Len(gs) - 1))
             g == gs[Len(gs)]
             k == Cardinality({i \in 1..Len(init) : init[i].time <= g.time})
         IN  SubSeq(init, 1, k) \o <<g>> \o SubSeq(init, k + 1, Len(init))

\* A faulty choice of the targets: the gates that are no measurements.
order_measurements_negated(all_gates) ==
    {n \in 1..Len(all_gates) : ~all_gates[n].is_measurement}

\* measurements = [n for n, gate in all_gates if gate.is_measurement]
order_measurements(all_gates) ==
    {n \in 1..Len(all_gates) : all_gates[n].is_measurement}

\* gts = [n for n, gate in all_gates if gate.involves_qubit(str(b))]
order_gts(all_gates, b) ==
    {n \in 1..Len(all_gates) : involves_qubit(all_gates[n], b.name)}

\* Faulty dependencies: the first gate of a qubit also depends on the last.
order_dependencies_ring(all_gates, qs) ==
    [g2 \in 1..Len(all_gates) |->
        {g1 \in 1..Len(all_gates) :
            \E k \in 1..Len(qs) :
                LET gts == order_gts(all_gates, qs[k])
                IN  /\ g1 \in gts /\ g2 \in gts
                    /\ \/ g1 < g2 /\ \A m \in gts : ~(g1 < m /\ m < g2)
                       \/ g2 < g1 /\ \A m \in gts : g2 <= m /\ m <= g1}]

\* The dependencies dict after the loop over self.qubits: g2 depends on g1
\* when they are consecutive in the gts of some qubit.
order_dependencies(all_gates, qs) ==
    [g2 \in 1..Len(all_gates) |->
        {g1 \in 1..Len(all_gates) :
            \E k \in 1..Len(qs) :
                LET gts == order_gts(all_gates, qs[k])
                IN  /\ g1 \in gts /\ g2 \in gts /\ g1 < g2
                    /\ \A m \in gts : ~(g1 < m /\ m < g2)}]

\* tp.greedy_toposort(dependencies, targets): among the nodes whose
\* dependencies are all emitted, a target if one is ready, else any ready
\* node, ties broken by position in the time-sorted list.  The result is
\* shorter than the node set when a cycle leaves nodes that never get ready.
RECURSIVE greedy_emit(_, _, _)
greedy_emit(dependencies, targets, out) ==
    LET emitted == Range(out)
        ready == {n \in DOMAIN dependencies \ emitted :
                     dependencies[n] \subseteq emitted}
        first == IF ready \cap targets # {} THEN ready \cap targets ELSE ready
    IN  IF ready = {} THEN out
        ELSE greedy_emit(dependencies, targets, Append(out, Min(first)))

greedy_toposort(dependencies, targets) ==
    greedy_emit(dependencies, targets, <<>>)

\* The value of `order` in Circuit.order, all_gates being the time-sorted
\* gate list.
order_of(all_gates, qs) ==
    greedy_toposort(order_dependencies(all_gates, qs),
                    order_measurements(all_gates))

\* "%d" % n
FormatD(n) == ToString(n)

\* A faulty new_order that also moves each gate to the time of its position.
new_order_retimed(all_gates, ord) ==
    [k \in 1..Len(ord) |->
        [all_gates[ord[k]] EXCEPT !.annotation = FormatD(k - 1), !.time = k - 1]]

\* new_order in Circuit.order: the gates in the order `ord`, each annotated
\* with its (0-based) position.
new_order(all_gates, ord) ==
    [k \in 1..Len(ord) |->
        [all_gates[ord[k]] EXCEPT !.annotation = FormatD(k - 1)]]

---------------------------------------------------------------------------
(* The state after construction, and the frame of each group of actions.   *)

\* Circuit.__init__ (no qubits, no gates), a fresh state engine with its
\* classical register and classical_probability = 1, and no call made yet.
InitCommon ==
    /\ gates = <<>>
    /\ next_id = 1
    /\ samplers = <<>>
    /\ classical = [n \in Names |-> 0]
    /\ classical_probability = One
    /\ trace = <<>>
    /\ pc = 0
    /\ err = None
    /\ last = [op |-> "init", pre_gates |-> <<>>, tmin |-> <<>>, tmax |-> <<>>,
               only_qubits |-> <<>>]
    /\ ptm_cache = <<>>
    /\ next_obj = 1
    /\ dms = <<>>
    /\ threads = <<>>
    /\ call = [op |-> "init", n |-> 0]

Called(op) == [op |-> op, pre_gates |-> gates, tmin |-> <<>>, tmax |-> <<>>,
               only_qubits |-> <<>>]

sdm_vars == <<classical, classical_probability, trace, pc>>

\* The state of the density-matrix engines, which no circuit operation
\* touches.
dm_vars == <<ptm_cache, next_obj, dms, threads, call>>

---------------------------------------------------------------------------
(* Building the circuit.                                                   *)

\* Circuit.add_gate(gate) for a constructed gate object.
add_gate(gate) ==
    /\ gates' = Append(gates, gate)
    /\ next_id' = next_id + 1
    /\ last' = Called("add_gate")
    /\ err' = None

\* circuit.add_hadamard(bit, time, conditional_bit=...)
AddHadamard(bit, time, conditional_bit) ==
    /\ pc = 0
    /\ add_gate(Hadamard(next_id, bit, Ticks(time), conditional_bit))
    /\ UNCHANGED <<dm_vars, qubits, samplers, sdm_vars>>

\* circuit.add_rotate_y(bit, time, angle, conditional_bit=...)
AddRotateY(bit, time, angle, conditional_bit) ==
    /\ pc = 0
    /\ add_gate(RotateY(next_id, bit, Ticks(time), angle, conditional_bit))
    /\ UNCHANGED <<dm_vars, qubits, samplers, sdm_vars>>

\* circuit.add_cphase(bit0, bit1, time, conditional_bit=...)
AddCPhase(bit0, bit1, time, conditional_bit) ==
    /\ pc = 0
    /\ add_gate(CPhase(next_id, bit0, bit1, Ticks(time), conditional_bit))
    /\ UNCHANGED <<dm_vars, qubits, samplers, sdm_vars>>

\* circuit.add_measurement(bit, time, sampler, output_bit, real_output_bit)
\* with sampler None (sarg = <<>>) or a sampler object made for this call
\* (sarg = <<kind, param>>).  Measurement.__init__ primes the sampler with
\* next(); both draws of a priming step are unused.
AddMeasurement(bit, time, sarg, output_bit, real_output_bit) ==
    LET obj == IF sarg = <<>> THEN SamplerObj("uniform", 0)
               ELSE SamplerObj(sarg[1], sarg[2])
        primed == SamplerSend(obj, <<>>, 0, 0)
    IN  /\ pc = 0
        /\ samplers' = Append(samplers, primed.s)
        /\ add_gate(Measurement(next_id, bit, Ticks(time),
                                Len(samplers) + 1, output_bit, real_output_bit))
        /\ UNCHANGED <<dm_vars, qubits, sdm_vars>>

\* Circuit.order: the whole method.  A dependency cycle makes
\* greedy_toposort fail before self.gates is assigned.
Order ==
    LET all_gates == sorted_by_time(gates)
        ord == order_of(all_gates, qubits)
    IN  /\ pc = 0
        /\ IF Len(ord) = Len(all_gates)
           THEN gates' = new_order(all_gates, ord) /\ err' = None
           ELSE gates' = gates /\ err' = "ValueError"
        /\ last' = Called("order")
        /\ UNCHANGED <<dm_vars, qubits, next_id, samplers, sdm_vars>>

---------------------------------------------------------------------------
(* Circuit.add_waiting_gates                                               *)

\* bool(only_qubits): None and an empty iterable are both false.
TruthyIter(only_qubits) == only_qubits # <<>> /\ only_qubits[1] # {}

\* tmin after the defaulting: the time of the first gate when not given.
wait_tmin(all_gates, tmin) ==
    IF tmin = <<>> THEN all_gates[1].time ELSE tmin[1]

\* tmax after the defaulting: the time of the last gate when not given.
wait_tmax(all_gates, tmax) ==
    IF tmax = <<>> THEN all_gates[Len(all_gates)].time ELSE tmax[1]

\* qubits_to_do: the qubits with a finite t1 or t2, restricted to
\* only_qubits when that is truthy.
qubits_to_do(qs, only_qubits) ==
    LET finite == SelectSeq(qs, LAMBDA qb : qb.t1 < Inf \/ qb.t2 < Inf)
    IN  IF TruthyIter(only_qubits)
        THEN SelectSeq(finite, LAMBDA qb : qb.name \in only_qubits[1])
        ELSE finite

\* gts of qubit b: its gates inside the window, in time order.
wait_gts(all_gates, b, tmin, tmax) ==
    SelectSeq(all_gates,
              LAMBDA gate : /\ involves_qubit(gate, b.name)
                            /\ tmin <= gate.time /\ gate.time <= tmax)

\* A faulty loop body that fills a leading or trailing gap of exactly 1e-6.
waiting_gates_for_inclusive(all_gates, b, tmin, tmax) ==
    LET gts == wait_gts(all_gates, b, tmin, tmax)
        n == Len(gts)
    IN  IF n = 0
        THEN << <<Half(tmax + tmin), tmax - tmin>> >>
        ELSE (IF gts[1].time - tmin >= Eps
              THEN << <<Half(gts[1].time + tmin), gts[1].time - tmin>> >>
              ELSE <<>>)
             \o
             (IF tmax - gts[n].time >= Eps
              THEN << <<Half(gts[n].time + tmax), tmax - gts[n].time>> >>
              ELSE <<>>)
             \o
             [k \in 1..(n - 1) |->
                 <<Half(gts[k].time + gts[k + 1].time),
                   gts[k + 1].time - gts[k].time>>]

\* A faulty loop body whose trailing gap starts at the first gate.
waiting_gates_for_first(all_gates, b, tmin, tmax) ==
    LET gts == wait_gts(all_gates, b, tmin, tmax)
        n == Len(gts)
    IN  IF n = 0
        THEN << <<Half(tmax + tmin), tmax - tmin>> >>
        ELSE (IF gts[1].time - tmin > Eps
              THEN << <<Half(gts[1].time + tmin), gts[1].time - tmin>> >>
              ELSE <<>>)
             \o
             (IF tmax - gts[1].time > Eps
              THEN << <<Half(gts[1].time + tmax), tmax - gts[1].time>> >>
              ELSE <<>>)
             \o
             [k \in 1..(n - 1) |->
                 <<Half(gts[k].time + gts[k + 1].time),
                   gts[k + 1].time - gts[k].time>>]

\* The body of the loop for qubit b: <<time, duration>> of the AmpPhDamp
\* gates added, in the order they are added (leading gap, trailing gap,
\* gaps between consecutive gates).
waiting_gates_for(all_gates, b, tmin, tmax) ==
    LET gts == wait_gts(all_gates, b, tmin, tmax)
        n == Len(gts)
    IN  IF n = 0
        THEN << <<Half(tmax + tmin), tmax - tmin>> >>
        ELSE (IF gts[1].time - tmin > Eps
              THEN << <<Half(gts[1].time + tmin), gts[1].time - tmin>> >>
              ELSE <<>>)
             \o
             (IF tmax - gts[n].time > Eps
              THEN << <<Half(gts[n].time + tmax), tmax - gts[n].time>> >>
              ELSE <<>>)
             \o
             [k \in 1..(n - 1) |->
                 <<Half(gts[k].time + gts[k + 1].time),
                   gts[k + 1].time - gts[k].time>>]

\* The gates appended by the loop over the qubits todo, the first with
\* object identity id.
RECURSIVE waiting_gates(_, _, _, _, _)
waiting_gates(all_gates, todo, tmin, tmax, id) ==
    IF todo = <<>> THEN <<>>
    ELSE LET b == Head(todo)
             w == waiting_gates_for(all_gates, b, tmin, tmax)
             new == [k \in 1..Len(w) |->
                        AmpPhDamp(id + k - 1, b.name, w[k][1], w[k][2],
                                  b.t1, b.t2, None)]
         IN  new \o waiting_gates(all_gates, Tail(todo), tmin, tmax,
                                  id + Len(w))

\* Circuit.add_waiting_gates(tmin, tmax, only_qubits): the whole method.
AddWaitingGates(tmin, tmax, only_qubits) ==
    LET all_gates == sorted_by_time(gates)
        added == IF all_gates = <<>> /\ (tmin = <<>> \/ tmax = <<>>)
                 THEN <<>>
                 ELSE waiting_gates(all_gates,
                                    qubits_to_do(qubits, only_qubits),
                                    wait_tmin(all_gates, tmin),
                                    wait_tmax(all_gates, tmax),
                                    next_id)
    IN  /\ pc = 0
        /\ gates' = gates \o added
        /\ next_id' = next_id + Len(added)
        /\ last' = [op |-> "add_waiting_gates", pre_gates |-> gates,
                    tmin |-> tmin, tmax |-> tmax, only_qubits |-> only_qubits]
        /\ err' = None
        /\ UNCHANGED <<dm_vars, qubits, samplers, sdm_vars>>

---------------------------------------------------------------------------
(* Applying gates to a state engine sdm.  The engine is represented by the *)
(* calls made on it: every call is appended to trace as an event           *)
(* [ev, args, vals], with the bits it was given in args and the numbers in *)
(* vals.                                                                   *)

Event(ev, args, vals) == [ev |-> ev, args |-> args, vals |-> vals]

\* s[1:] of a Python list
PyTail(s) == IF s = <<>> THEN <<>> ELSE Tail(s)

RatMul(x, y) == <<x[1] * y[1], x[2] * y[2]>>

\* Number of positional (bit) parameters of the engine operation.
Arity(method_name) == IF method_name = "cphase" THEN 2 ELSE 1

\* f = sdm.__getattribute__(method_name); f(*args, **method_params): the
\* events of the call, and the TypeError of a call with the wrong number of
\* positional arguments.
engine_call(method_name, args, method_params) ==
    IF Len(args) = Arity(method_name)
    THEN [events |-> <<Event(method_name, args, method_params)>>, exc |-> None]
    ELSE [events |-> <<>>, exc |-> "TypeError"]

\* sdm.ensure_classical(bit)
ensure_classical(bit) == <<Event("ensure_classical", <<bit>>, <<>>)>>

\* Gate.apply_to for a gate that is no Measurement, cls the classical
\* register: the events of the call and its exception.
gate_apply_to(gate, cls) ==
    IF gate.conditional_bit # None
    THEN IF cls[gate.conditional_bit] = 1
         THEN LET c == engine_call(gate.method_name,
                                   PyTail(gate.involved_qubits),
                                   gate.method_params)
              IN  [events |-> ensure_classical(gate.conditional_bit) \o c.events,
                   exc |-> c.exc]
         ELSE [events |-> ensure_classical(gate.conditional_bit), exc |-> None]
    ELSE engine_call(gate.method_name, gate.involved_qubits, gate.method_params)

\* sdm.set_bit(bit, value) when `bit` is truthy, else nothing
set_bit_if(bit, value) ==
    IF Truthy(bit) THEN <<Event("set_bit", <<bit>>, <<value>>)>> ELSE <<>>

\* The events of Measurement.apply_to after the sampler has answered
\* out = <<declare, project, cond_prob>> to <<p0, p1>>.
measurement_events(gate, p0, p1, out) ==
    <<Event("peak_measurement", <<gate.bit>>, <<p0, p1>>),
      Event("sampler.send", <<>>, <<gate.sampler, p0, p1>> \o <<out[1], out[2]>> \o out[3]),
      Event("measurements.append", <<>>, <<out[1]>>)>>
    \o set_bit_if(gate.output_bit, out[1])
    \o <<Event("project_measurement", <<gate.bit>>, <<out[2]>>)>>
    \o set_bit_if(gate.real_output_bit, out[2])
    \o <<Event("classical_probability", <<>>, out[3])>>

\* sdm.classical after the set_bit calls of Measurement.apply_to
measurement_classical(gate, cls, out) ==
    LET c1 == IF Truthy(gate.output_bit)
              THEN [cls EXCEPT ![gate.output_bit] = out[1]] ELSE cls
    IN  IF Truthy(gate.real_output_bit)
        THEN [c1 EXCEPT ![gate.real_output_bit] = out[2]] ELSE c1

\* A faulty update that assigns the factor instead of multiplying by it.
probability_assigned(cp, cond_prob) == cond_prob

\* sdm.classical_probability *= cond_prob
probability_after(cp, cond_prob) == RatMul(cp, cond_prob)

\* The loop of Circuit.apply_to moves on, or ends after the last gate or
\* with the exception exc.
next_pc(exc) == IF exc # None \/ pc = Len(gates) THEN 0 ELSE pc + 1

\* Circuit.apply_to(sdm) is called.
StartApply ==
    /\ pc = 0
    /\ pc' = IF gates = <<>> THEN 0 ELSE 1
    /\ trace' = Append(trace, Event("Circuit.apply_to", <<>>, <<>>))
    /\ err' = None
    /\ last' = Called("apply_to")
    /\ UNCHANGED <<dm_vars, qubits, gates, next_id, samplers, classical,
                   classical_probability>>

\* One pass of the loop of Circuit.apply_to, for a gate that is no
\* Measurement: Gate.apply_to.
ApplyGate ==
    /\ pc > 0
    /\ ~gates[pc].is_measurement
    /\ LET r == gate_apply_to(gates[pc], classical)
       IN  /\ trace' = trace \o r.events
           /\ err' = r.exc
           /\ pc' = next_pc(r.exc)
    /\ UNCHANGED <<dm_vars, qubits, gates, next_id, samplers, classical,
                   classical_probability, last>>

\* One pass of the loop of Circuit.apply_to, for a Measurement:
\* Measurement.apply_to, where sdm.peak_measurement answers (p0, p1) and the
\* sampler draws rn and rn2.
ApplyMeasurement(p0, p1, rn, rn2) ==
    /\ pc > 0
    /\ gates[pc].is_measurement
    /\ LET gate == gates[pc]
           r == SamplerSend(samplers[gate.sampler], <<p0, p1>>, rn, rn2)
       IN  IF r.exc # None
           THEN /\ trace' = Append(trace, Event("peak_measurement",
                                                <<gate.bit>>, <<p0, p1>>))
                /\ samplers' = [samplers EXCEPT ![gate.sampler] = r.s]
                /\ err' = r.exc
                /\ pc' = 0
                /\ UNCHANGED <<gates, classical, classical_probability>>
           ELSE /\ trace' = trace \o measurement_events(gate, p0, p1, r.out)
                /\ samplers' = [samplers EXCEPT ![gate.sampler] = r.s]
                /\ gates' = [gates EXCEPT ![pc].measurements = Append(@, r.out[1])]
                /\ classical' = measurement_classical(gate, classical, r.out)
                /\ classical_probability' =
                       probability_after(classical_probability, r.out[3])
                /\ err' = None
                /\ pc' = next_pc(None)
    /\ UNCHANGED <<dm_vars, qubits, next_id, last>>

---------------------------------------------------------------------------
(* Using a sampler directly.                                               *)

\* sampler = selection_sampler(result) / uniform_sampler() /
\* uniform_noisy_sampler(readout_error): a new generator object.
NewSampler(kind, param) ==
    /\ samplers' = Append(samplers, SamplerObj(kind, param))
    /\ err' = None
    /\ UNCHANGED <<dm_vars, qubits, gates, next_id, sdm_vars, last>>

\* next(samplers[i]) for value = <<>>, samplers[i].send(value) otherwise.
Send(i, value, rn, rn2) ==
    LET r == SamplerSend(samplers[i], value, rn, rn2)
    IN  /\ samplers' = [samplers EXCEPT ![i] = r.s]
        /\ err' = r.exc
        /\ trace' = IF r.exc # None \/ r.out = <<>>
                    THEN Append(trace, Event("sampler.send", <<>>, <<i>>))
                    ELSE Append(trace, Event("sampler.send", <<>>,
                                <<i>> \o (IF value = <<>> THEN <<0, 0>> ELSE value)
                                      \o <<r.out[1], r.out[2]>> \o r.out[3]))
        /\ UNCHANGED <<dm_vars, qubits, gates, next_id, classical,
                       classical_probability, pc, last>>

---------------------------------------------------------------------------
(* Specification of the scheduler's causal ordering: a circuit over the    *)
(* qubits "", "a" and "b" is built gate by gate and ordered.               *)

Times == 0..MaxTime

\* (bit, conditional_bit) of the Hadamard gates added
HadamardArgs == {<<"a", None>>, <<"b", "a">>, <<"b", "">>}

\* (bit, output_bit, real_output_bit) of the Measurement gates added
MeasurementArgs == {<<"a", None, None>>, <<"b", None, None>>, <<"a", "", None>>}

Init ==
    /\ InitCommon
    /\ qubits = <<Qubit("", Inf, Inf), Qubit("a", Inf, Inf), Qubit("b", Inf, Inf)>>

\* The circuit is defined first and ordered afterwards ("this function
\* should always be called after defining the circuit").
Building == Len(gates) < MaxGates /\ last.op # "order"

Next ==
    \/ /\ Building
       /\ \E a \in HadamardArgs, t \in Times : AddHadamard(a[1], t, a[2])
    \/ /\ Building
       /\ \E a \in MeasurementArgs, t \in Times :
              AddMeasurement(a[1], t, <<>>, a[2], a[3])
    \/ Order

Spec == Init /\ [][Next]_vars

---------------------------------------------------------------------------
(* Properties of Circuit.order.                                            *)

\* The last call was order() and it returned.
OrderDone == last.op = "order" /\ err = None

\* Position of the gate object `id` in the gate list gs.
PosOf(gs, id) == CHOOSE k \in 1..Len(gs) : gs[k].id = id

\* The gate involves bit q as operand, as guard or as measurement output.
Involves(g, q) ==
    \/ q \in Range(g.involved_qubits)
    \/ g.conditional_bit = q
    \/ g.output_bit = q
    \/ g.real_output_bit = q

\* pre[i] is to run before pre[j]: smaller time, or equal time and inserted
\* earlier.
Before(pre, i, j) ==
    \/ pre[i].time < pre[j].time
    \/ pre[i].time = pre[j].time /\ i < j

\* C1: after order(), any two gates that involve the same qubit of the
\* circuit (as operand, guard bit or measurement output bit) appear in
\* self.gates in the order of their times, equal times in insertion order.
C1_SameQubitTemporalOrder ==
    OrderDone =>
        LET pre == last.pre_gates
        IN  \A k \in 1..Len(qubits) : \A i, j \in 1..Len(pre) :
                (/\ Involves(pre[i], qubits[k].name)
                 /\ Involves(pre[j], qubits[k].name)
                 /\ Before(pre, i, j))
                => PosOf(gates, pre[i].id) < PosOf(gates, pre[j].id)

\* The dependency graph of the last order() call, over the positions of the
\* time-sorted list, and the sorted position of the gate emitted k-th.
LastSorted == sorted_by_time(last.pre_gates)
LastDeps == order_dependencies(LastSorted, qubits)
SortedPos(k) == PosOf(LastSorted, gates[k].id)
EmittedBefore(k) == {SortedPos(j) : j \in 1..(k - 1)}
ReadyAt(k) ==
    {n \in 1..Len(LastSorted) \ EmittedBefore(k) :
        LastDeps[n] \subseteq EmittedBefore(k)}

\* At every step of the emitted order at which some measurement has all its
\* dependencies emitted, the gate emitted is a measurement.
MeasurementPriority ==
    \A k \in 1..Len(gates) :
        (\E n \in ReadyAt(k) : LastSorted[n].is_measurement)
        => gates[k].is_measurement

\* The measurements of the emitted order whose only dependency is one gate:
\* pairs <<position of that gate, position of the measurement>>.
SingleDependency ==
    {<<i, k>> \in (1..Len(gates)) \X (1..Len(gates)) :
        /\ gates[k].is_measurement
        /\ LastDeps[SortedPos(k)] = {SortedPos(i)}}

\* C2 as stated: measurements have priority, and a measurement that depends
\* only on G1 is placed immediately after G1.
C2_MeasurementImmediatelyAfter ==
    OrderDone =>
        /\ MeasurementPriority
        /\ \A p \in SingleDependency : p[2] = p[1] + 1

\* C2, amended: measurements have priority, and a measurement that depends
\* only on G1 is separated from G1 by measurement gates only.
C2_MeasurementPriority ==
    OrderDone =>
        /\ MeasurementPriority
        /\ \A p \in SingleDependency :
               /\ p[1] < p[2]
               /\ \A m \in (p[1] + 1)..(p[2] - 1) : gates[m].is_measurement

\* A measurement depending only on G1 follows G1 at once, ahead of an
\* independent non-measurement gate that is earlier in the input.
C2_Witness ==
    /\ OrderDone
    /\ \E p \in SingleDependency :
           /\ p[2] = p[1] + 1
           /\ \E m \in (p[2] + 1)..Len(gates) :
                  /\ ~gates[m].is_measurement
                  /\ PosOf(last.pre_gates, gates[m].id)
                         < PosOf(last.pre_gates, gates[p[2]].id)
                  /\ gates[m].time <= gates[p[2]].time

\* C3: order() only reorders: every gate object of the list before the call
\* appears exactly once after it, unchanged but for its annotation.
C3_OrderIsPermutation ==
    last.op = "order" =>
        LET pre == last.pre_gates
        IN  /\ Len(gates) = Len(pre)
            /\ \A i \in 1..Len(pre) :
                   /\ Cardinality({k \in 1..Len(gates) : gates[k].id = pre[i].id}) = 1
                   /\ \E k \in 1..Len(gates) :
                          [gates[k] EXCEPT !.annotation = None]
                              = [pre[i] EXCEPT !.annotation = None]

\* order() moved a gate, in a circuit with two gates of the same time.
C3_Witness ==
    /\ OrderDone
    /\ \E i, j \in 1..Len(gates) : i # j /\ gates[i].time = gates[j].time
    /\ \E i \in 1..Len(gates) : gates[i].id # last.pre_gates[i].id

\* C25: the dependency graph order() builds has no cycle: every edge goes
\* from a position of the time-sorted gate list to a larger one, and
\* order() returns without an error, whatever the times of the gates and
\* the qubits they share.
C25_NoDependencyCycle ==
    last.op = "order" =>
        /\ err = None
        /\ \A g2 \in DOMAIN LastDeps : \A g1 \in LastDeps[g2] : g1 < g2

\* order() has returned on a circuit in which a gate depends on a gate of
\* the same time with which it shares two qubits.
C25_Witness ==
    /\ OrderDone
    /\ \E g2 \in DOMAIN LastDeps : \E g1 \in LastDeps[g2] :
           /\ LastSorted[g1].time = LastSorted[g2].time
           /\ Cardinality(Range(LastSorted[g1].involved_qubits)
                              \cap Range(LastSorted[g2].involved_qubits)) >= 2

\* C27: order() on a circuit that order() has just ordered, with no gate
\* added in between, returns and leaves self.gates, annotations included,
\* as it was.
C27_OrderIdempotent ==
    [][(OrderDone /\ last'.op = "order") =>
           /\ err' = None
           /\ gates' = gates]_vars

\* order() has been called a second time on a circuit in which two gates
\* have the same time and which the first call left with a gate ahead of a
\* gate of a smaller time.
C27_Witness ==
    /\ OrderDone
    /\ last.pre_gates = gates
    /\ \A k \in 1..Len(gates) : gates[k].annotation = FormatD(k - 1)
    /\ \E i, j \in 1..Len(gates) : i < j /\ gates[i].time = gates[j].time
    /\ \E i, j \in 1..Len(gates) : i < j /\ gates[i].time > gates[j].time

---------------------------------------------------------------------------
(* Specification of idle-gate synthesis: a circuit over the qubits "a" and *)
(* "b", with some choice of their t1 and t2, is built gate by gate, and    *)
(* add_waiting_gates is called on it once.                                 *)

WaitTimes == 0..MaxWaitTime

\* The qubits of the circuit: (t1, t2) of "a" and of "b"; a t1 of 0 is
\* raised to the floor by Qubit.__init__.
WaitQubits ==
    {<<Qubit("a", 5, 7), Qubit("b", Inf, Inf)>>,
     <<Qubit("a", Inf, 7), Qubit("b", 0, Inf)>>,
     <<Qubit("a", Inf, Inf), Qubit("b", 3, 3)>>}

\* tmin and tmax: None or a time.
WaitBounds == {<<>>} \cup {<<Ticks(t)>> : t \in WaitTimes}

\* only_qubits: None, an empty list or a list of names.
WaitOnly == {<<>>, <<{}>>, <<{"a"}>>}

InitWait ==
    /\ InitCommon
    /\ qubits \in WaitQubits

BuildingWait == Len(gates) < MaxWaitGates /\ last.op # "add_waiting_gates"

NextWait ==
    \/ /\ BuildingWait
       /\ \E t \in WaitTimes : AddHadamard("a", t, None)
    \/ /\ BuildingWait
       /\ \E t \in WaitTimes : AddRotateY("b", t, 1, None)
    \/ /\ BuildingWait
       /\ \E t \in WaitTimes : AddCPhase("a", "b", t, None)
    \/ /\ last.op # "add_waiting_gates"
       /\ \E tmin \in WaitBounds, tmax \in WaitBounds, only \in WaitOnly :
              AddWaitingGates(tmin, tmax, only)

SpecWait == InitWait /\ [][NextWait]_vars

---------------------------------------------------------------------------
(* Properties of Circuit.add_waiting_gates.                                *)

\* The last call was add_waiting_gates and it got past the early return.
WaitDone ==
    /\ last.op = "add_waiting_gates"
    /\ ~(last.pre_gates = <<>> /\ (last.tmin = <<>> \/ last.tmax = <<>>))

\* The window of the last call, and the gates the call appended.
LastTmin == wait_tmin(sorted_by_time(last.pre_gates), last.tmin)
LastTmax == wait_tmax(sorted_by_time(last.pre_gates), last.tmax)
Appended == SubSeq(gates, Len(last.pre_gates) + 1, Len(gates))

\* The qubits the last call processed.
Processed == Range(qubits_to_do(qubits, last.only_qubits))

\* The gates appended for the qubit named q.
AppendedOn(q) == SelectSeq(Appended, LAMBDA g : g.involved_qubits = <<q>>)

\* The times g1 <= ... <= gk of the gates of q inside the window.
WindowTimes(q) ==
    LET gts == SelectSeq(sorted_by_time(last.pre_gates),
                         LAMBDA g : /\ q \in Range(g.involved_qubits)
                                    /\ LastTmin <= g.time /\ g.time <= LastTmax)
    IN  [k \in 1..Len(gts) |-> gts[k].time]

\* How many gates of the sequence gs lie in the middle of the interval
\* [lo, hi] with its length as duration.
Spanning(gs, lo, hi) ==
    Cardinality({k \in 1..Len(gs) :
                    2 * gs[k].time = lo + hi /\ gs[k].duration = hi - lo})

\* The gaps of q the claim names: consecutive gates, the leading gap and
\* the trailing gap when longer than 1e-6; the whole window without gates.
Gaps(q) ==
    LET g == WindowTimes(q)
        k == Len(g)
    IN  IF k = 0 THEN << <<LastTmin, LastTmax>> >>
        ELSE (IF g[1] - LastTmin > Eps THEN << <<LastTmin, g[1]>> >> ELSE <<>>)
             \o (IF LastTmax - g[k] > Eps THEN << <<g[k], LastTmax>> >> ELSE <<>>)
             \o [i \in 1..(k - 1) |-> <<g[i], g[i + 1]>>]

\* C9: for every processed qubit the gates appended are damping gates with
\* the qubit's t1 and t2, there are as many of them as gaps, and each gap
\* holds as many gates centered in it, with its length as duration, as
\* there are gaps with these ends.
C9_OneGatePerGap ==
    WaitDone =>
        \A b \in Processed :
            LET new == AppendedOn(b.name)
                gaps == Gaps(b.name)
            IN  /\ Len(new) = Len(gaps)
                /\ \A k \in 1..Len(new) :
                       /\ new[k].kind = "AmpPhDamp"
                       /\ new[k].t1 = b.t1 /\ new[k].t2 = b.t2
                /\ \A i \in 1..Len(gaps) :
                       Spanning(new, gaps[i][1], gaps[i][2])
                           = Cardinality({j \in 1..Len(gaps) : gaps[j] = gaps[i]})

\* A processed qubit with two gates in the window got a gate for the gap
\* between them and one for a leading gap, and none for the trailing gap.
C9_Witness ==
    /\ WaitDone
    /\ \E b \in Processed :
           LET g == WindowTimes(b.name)
           IN  /\ Len(g) = 2
               /\ g[1] < g[2]
               /\ g[1] - LastTmin > Eps
               /\ LastTmax - g[2] <= Eps
               /\ Len(AppendedOn(b.name)) = 2
               /\ Spanning(AppendedOn(b.name), g[1], g[2]) = 1
               /\ Spanning(AppendedOn(b.name), LastTmin, g[1]) = 1

\* The qubit of the circuit named q, if any, has a finite t1 or t2.
FiniteQubit(q) ==
    \E k \in 1..Len(qubits) :
        qubits[k].name = q /\ (qubits[k].t1 < Inf \/ qubits[k].t2 < Inf)

\* C10: gates are added only on qubits with a finite t1 or t2 and, when
\* only_qubits is given (an empty iterable included), only on qubits named
\* in it; the gates present before the call are kept as they were, in place.
C10_OnlyRequestedQubits ==
    last.op = "add_waiting_gates" =>
        /\ SubSeq(gates, 1, Len(last.pre_gates)) = last.pre_gates
        /\ \A k \in 1..Len(Appended) :
               LET q == Appended[k].involved_qubits[1]
               IN  /\ FiniteQubit(q)
                   /\ last.only_qubits # <<>> => q \in last.only_qubits[1]

\* The names of the qubits relevant to the last call: those in only_qubits
\* if it was given, otherwise the qubits of the circuit.
RelevantNames ==
    IF last.only_qubits # <<>> THEN last.only_qubits[1]
    ELSE {qubits[k].name : k \in 1..Len(qubits)}

\* The times of the gates, before the call, on the relevant qubits.
RelevantTimes ==
    {last.pre_gates[k].time : k \in
        {i \in 1..Len(last.pre_gates) :
            Range(last.pre_gates[i].involved_qubits) \cap RelevantNames # {}}}

Latest(S) == CHOOSE x \in S : \A y \in S : y <= x

\* C11: a bound that is not given defaults to the time of the earliest
\* (latest) gate on the relevant qubits, so that no gate added reaches
\* before (after) it; with no gates and a missing bound nothing changes.
C11_DefaultWindow ==
    last.op = "add_waiting_gates" =>
        /\ (last.pre_gates = <<>> /\ (last.tmin = <<>> \/ last.tmax = <<>>))
           => gates = last.pre_gates
        /\ RelevantTimes # {} =>
               \A k \in 1..Len(Appended) :
                   LET g == Appended[k]
                   IN  /\ last.tmin = <<>> =>
                           2 * g.time - g.duration >= 2 * Min(RelevantTimes)
                       /\ last.tmax = <<>> =>
                           2 * g.time + g.duration <= 2 * Latest(RelevantTimes)

\* The sum of the durations of the gates gs.
RECURSIVE TotalDuration(_)
TotalDuration(gs) ==
    IF gs = <<>> THEN 0 ELSE gs[1].duration + TotalDuration(Tail(gs))

\* The leading and the trailing gap of q that are left out: at most 1e-6.
SkippedGaps(q) ==
    LET g == WindowTimes(q)
        k == Len(g)
    IN  IF k = 0 THEN 0
        ELSE (IF g[1] - LastTmin > Eps THEN 0 ELSE g[1] - LastTmin)
             + (IF LastTmax - g[k] > Eps THEN 0 ELSE LastTmax - g[k])

\* C28: after add_waiting_gates(tmin, tmax) with both bounds given, for
\* every processed qubit the durations of the gates added are above 0 and
\* sum to tmax - tmin minus the leading and trailing gaps left out, and the
\* intervals [time - duration/2, time + duration/2] of the gates lie inside
\* [tmin, tmax] and no two of them overlap.
C28_IdleCoverage ==
    (WaitDone /\ last.tmin # <<>> /\ last.tmax # <<>>) =>
        \A b \in Processed :
            LET new == AppendedOn(b.name)
                lo(g) == 2 * g.time - g.duration
                hi(g) == 2 * g.time + g.duration
            IN  /\ \A k \in 1..Len(new) : new[k].duration > 0
                /\ TotalDuration(new) = LastTmax - LastTmin - SkippedGaps(b.name)
                /\ \A k \in 1..Len(new) :
                       2 * LastTmin <= lo(new[k]) /\ hi(new[k]) <= 2 * LastTmax
                /\ \A k, j \in 1..Len(new) :
                       k # j => hi(new[k]) <= lo(new[j]) \/ hi(new[j]) <= lo(new[k])

\* C28, as stated, holds but for the durations: a gap between two gates of
\* the same time gets a gate of duration 0, and so does a window without
\* gates whose bounds are equal.
\* C28, amended: after add_waiting_gates(tmin, tmax) with both bounds
\* given, for every processed qubit the durations of the gates added sum
\* to tmax - tmin minus the leading and trailing gaps left out.  With
\* tmin <= tmax no duration is below 0, a duration is 0 only for a gap
\* between two gates of the same time or for a window without gates whose
\* bounds are equal, the intervals of the gates lie inside [tmin, tmax] and
\* no two of them share more than an end.  With tmax < tmin the qubit gets
\* one gate, of duration tmax - tmin.
C28_IdleCoverageOnce ==
    (WaitDone /\ last.tmin # <<>> /\ last.tmax # <<>>) =>
        \A b \in Processed :
            LET new == AppendedOn(b.name)
                g == WindowTimes(b.name)
                lo(x) == 2 * x.time - x.duration
                hi(x) == 2 * x.time + x.duration
            IN  /\ TotalDuration(new) = LastTmax - LastTmin - SkippedGaps(b.name)
                /\ IF LastTmin <= LastTmax
                   THEN /\ \A k \in 1..Len(new) :
                               /\ new[k].duration >= 0
                               /\ new[k].duration = 0 =>
                                      \/ Len(g) = 0 /\ LastTmin = LastTmax
                                      \/ \E i \in 1..(Len(g) - 1) :
                                             g[i] = g[i + 1] /\ new[k].time = g[i]
                               /\ 2 * LastTmin <= lo(new[k])
                               /\ hi(new[k]) <= 2 * LastTmax
                        /\ \A k, j \in 1..Len(new) :
                               k # j => \/ hi(new[k]) <= lo(new[j])
                                        \/ hi(new[j]) <= lo(new[k])
                   ELSE /\ Len(new) = 1
                        /\ new[1].duration = LastTmax - LastTmin

\* A processed qubit with two gates of the same time inside the window got
\* a gate of duration 0 between them and a gate for the leading gap.
C28_Witness ==
    /\ WaitDone
    /\ last.tmin # <<>> /\ last.tmax # <<>>
    /\ LastTmin < LastTmax
    /\ \E b \in Processed :
           LET new == AppendedOn(b.name)
           IN  /\ Len(WindowTimes(b.name)) = 2
               /\ \E k \in 1..Len(new) : new[k].duration = 0
               /\ \E k \in 1..Len(new) : new[k].duration > Eps

---------------------------------------------------------------------------
(* Specification of the execution: a circuit of a few gates is built and   *)
(* applied once to a state engine.                                         *)

\* (bit, conditional_bit) of the single-qubit gates added
ExecGuards == {None, "", "b"}

\* (sampler, output_bit, real_output_bit) of the Measurement gates added:
\* the sampler is None, a selection_sampler(1) or a
\* uniform_noisy_sampler(1/ProbDen).
ExecMeasurements ==
    {<< <<>>, None, None>>,
     << <<"selection", 1>>, "b", "a">>,
     << <<"selection", 1>>, "", "b">>,
     << <<"noisy", 1>>, None, None>>,
     << <<"noisy", 1>>, "b", "a">>}

\* The answers of sdm.peak_measurement, in units of 1/ProbDen.
Peeks == {<<ProbDen, 0>>, <<0, ProbDen>>, <<1, 1>>}

Draws == 0..(ProbDen - 1)

\* sdm.classical when Circuit.apply_to is called: all bits 0, or all bits 1.
ExecRegisters == {[n \in Names |-> v] : v \in {0, 1}}

InitExec ==
    /\ gates = <<>>
    /\ next_id = 1
    /\ samplers = <<>>
    /\ classical \in ExecRegisters
    /\ classical_probability = One
    /\ trace = <<>>
    /\ pc = 0
    /\ err = None
    /\ last = Called("init")
    /\ qubits = <<Qubit("a", Inf, Inf), Qubit("b", Inf, Inf)>>
    /\ ptm_cache = <<>>
    /\ next_obj = 1
    /\ dms = <<>>
    /\ threads = <<>>
    /\ call = [op |-> "init", n |-> 0]

BuildingExec == Len(gates) < MaxExecGates /\ trace = <<>>

NextExec ==
    \/ /\ BuildingExec
       /\ \E c \in ExecGuards : AddHadamard("a", 0, c)
    \/ /\ BuildingExec
       /\ \E c \in ExecGuards : AddRotateY("a", 0, 1, c)
    \/ /\ BuildingExec
       /\ \E c \in ExecGuards : AddCPhase("a", "b", 0, c)
    \/ /\ BuildingExec
       /\ \E c \in ExecGuards :
              /\ pc = 0
              /\ add_gate(AmpPhDamp(next_id, "a", 0, 2, 5, 7, c))
              /\ UNCHANGED <<dm_vars, qubits, samplers, sdm_vars>>
    \/ /\ BuildingExec
       /\ \E m \in ExecMeasurements :
              AddMeasurement("a", 0, m[1], m[2], m[3])
    \/ /\ trace = <<>>
       /\ StartApply
    \/ ApplyGate
    \/ \E p \in Peeks, rn \in Draws, rn2 \in Draws :
           ApplyMeasurement(p[1], p[2], rn, rn2)

SpecExec == InitExec /\ [][NextExec]_vars

---------------------------------------------------------------------------
(* Specification of the sampler protocol: one standard sampler is created, *)
(* primed and stepped.                                                     *)

\* The standard samplers: selection_sampler(0 or 1), uniform_sampler and
\* uniform_noisy_sampler(readout_error) for readout_error in [0, 1].
StandardSamplers ==
    {<<"selection", 0>>, <<"selection", 1>>, <<"uniform", 0>>}
    \cup {<<"noisy", en>> : en \in 0..ProbDen}

\* The relative probabilities given to a step: not both zero.
StepInputs ==
    {v \in {0, 1, ProbDen} \X {0, 1, ProbDen} : v[1] + v[2] > 0}

InitSampler ==
    /\ InitCommon
    /\ qubits = <<>>

NextSampler ==
    \/ /\ samplers = <<>>
       /\ \E k \in StandardSamplers : NewSampler(k[1], k[2])
    \/ /\ samplers # <<>> /\ Len(trace) < MaxSends
       /\ Send(1, <<>>, 0, 0)
    \/ /\ samplers # <<>> /\ Len(trace) < MaxSends
       /\ \E v \in StepInputs, rn \in Draws, rn2 \in Draws : Send(1, v, rn, rn2)

SpecSampler == InitSampler /\ [][NextSampler]_vars

---------------------------------------------------------------------------
(* Properties of the samplers.                                             *)

\* The steps taken with a value: events <<i, p0, p1, declared, projected,
\* numerator, denominator>>.
IsStep(e) == e.ev = "sampler.send" /\ Len(e.vals) = 7
Steps == {k \in 1..Len(trace) : IsStep(trace[k]) /\ trace[k].vals[2] + trace[k].vals[3] > 0}

\* x = n/d as rationals
RatIs(x, n, d) == x[1] * d = n * x[2]

\* C7: every step of a standard sampler yields declared and projected in
\* {0,1} and a conditional probability in (0,1] that is the probability of
\* declaring `declared` given the projection `projected`: 1 with declared =
\* projected for the selection and noiseless samplers; for the noisy sampler
\* readout_error when the two differ and 1 - readout_error when they agree.
C7_SamplerTriple ==
    \A k \in Steps :
        LET v == trace[k].vals
            smp == samplers[v[1]]
            d == v[4]
            p == v[5]
            prob == <<v[6], v[7]>>
        IN  /\ d \in {0, 1} /\ p \in {0, 1}
            /\ prob[2] > 0 /\ 0 < prob[1] /\ prob[1] <= prob[2]
            /\ smp.kind \in {"selection", "uniform"} =>
                   d = p /\ RatIs(prob, 1, 1)
            /\ smp.kind = "noisy" =>
                   RatIs(prob, IF d = p THEN ProbDen - smp.param ELSE smp.param,
                         ProbDen)

\* A noisy sampler with an error strictly between 0 and 1 has declared the
\* flipped value.
C7_Witness ==
    \E k \in Steps :
        /\ samplers[trace[k].vals[1]].kind = "noisy"
        /\ samplers[trace[k].vals[1]].param \in 1..(ProbDen - 1)
        /\ trace[k].vals[4] # trace[k].vals[5]

NoisySteps == {k \in Steps : samplers[trace[k].vals[1]].kind = "noisy"}

\* C8 as stated: the declared value is the projected value or its flip, and
\* the conditional probability is 1 - readout_error on a step where the
\* declared value was flipped and readout_error on a step where it was not.
C8_ProbabilityAsStated ==
    \A k \in NoisySteps :
        LET v == trace[k].vals
            en == samplers[v[1]].param
        IN  /\ v[4] \in {v[5], 1 - v[5]}
            /\ v[4] # v[5] => RatIs(<<v[6], v[7]>>, ProbDen - en, ProbDen)
            /\ v[4] = v[5] => RatIs(<<v[6], v[7]>>, en, ProbDen)

\* C8, amended: the conditional probability is readout_error on a step
\* where the declared value was flipped and 1 - readout_error on a step
\* where it was not.
C8_ProbabilityOfDeclaration ==
    \A k \in NoisySteps :
        LET v == trace[k].vals
            en == samplers[v[1]].param
        IN  /\ v[4] \in {v[5], 1 - v[5]}
            /\ v[4] # v[5] => RatIs(<<v[6], v[7]>>, en, ProbDen)
            /\ v[4] = v[5] => RatIs(<<v[6], v[7]>>, ProbDen - en, ProbDen)

\* A noisy sampler whose error is not 1/2 has taken a step with a flip and
\* a step without.
C8_Witness ==
    \E k, m \in NoisySteps :
        /\ 2 * samplers[trace[k].vals[1]].param # ProbDen
        /\ trace[k].vals[4] # trace[k].vals[5]
        /\ trace[m].vals[4] = trace[m].vals[5]

MonteCarloSteps == {k \in Steps : samplers[trace[k].vals[1]].kind \in {"uniform", "noisy"}}

\* C29: on every step of uniform_sampler or uniform_noisy_sampler with
\* p0 + p1 > 0, whatever the random draws, projected is 1 when p0 = 0 and
\* projected is 0 when p1 = 0: the outcome projected onto never has
\* probability 0.
C29_NoImpossibleProjection ==
    \A k \in MonteCarloSteps :
        LET p0 == trace[k].vals[2]
            p1 == trace[k].vals[3]
            projected == trace[k].vals[5]
        IN  /\ p0 = 0 => projected = 1
            /\ p1 = 0 => projected = 0
            /\ (IF projected = 0 THEN p0 ELSE p1) > 0

\* A Monte Carlo sampler has been stepped with p0 = 0 and with p1 = 0, and
\* a noisy one has declared the outcome of probability 0.
C29_Witness ==
    /\ \E k, m \in MonteCarloSteps :
           /\ trace[k].vals[2] = 0 /\ trace[k].vals[5] = 1
           /\ trace[m].vals[3] = 0 /\ trace[m].vals[5] = 0
    /\ \E k \in MonteCarloSteps :
           /\ samplers[trace[k].vals[1]].kind = "noisy"
           /\ trace[k].vals[3] = 0
           /\ trace[k].vals[4] = 1

\* C16: a sampler that is stepped before it is primed raises, and so does
\* a sampler that is primed a second time, as it is when a second
\* Measurement is constructed with it.
C16_PrimingProtocol ==
    [][\A i \in 1..Len(samplers) :
          /\ (/\ samplers[i].state = "created"
              /\ \E v \in StepInputs, rn \in Draws, rn2 \in Draws : Send(i, v, rn, rn2))
                 => err' # None
          /\ (samplers[i].state = "suspended" /\ Send(i, <<>>, 0, 0))
                 => err' # None]_vars

---------------------------------------------------------------------------
(* Properties of the application of gates.                                 *)

\* The events a step appends to trace.
NewEvents == SubSeq(trace', Len(trace) + 1, Len(trace'))

\* The step applies a Measurement whose sampler answers.
MeasurementApplied == pc > 0 /\ gates[pc].is_measurement /\ err' = None

\* The events of one application of the Measurement gate g, as the claim
\* lists them, snd being the event of the sampler's step.
StepsOfMeasurement(g, snd) ==
    LET declared == snd.vals[4]
        projected == snd.vals[5]
    IN  <<Event("peak_measurement", <<g.bit>>, <<snd.vals[2], snd.vals[3]>>),
          snd,
          Event("measurements.append", <<>>, <<declared>>)>>
        \o (IF g.output_bit # None
            THEN <<Event("set_bit", <<g.output_bit>>, <<declared>>)>> ELSE <<>>)
        \o <<Event("project_measurement", <<g.bit>>, <<projected>>)>>
        \o (IF g.real_output_bit # None
            THEN <<Event("set_bit", <<g.real_output_bit>>, <<projected>>)>>
            ELSE <<>>)
        \o <<Event("classical_probability", <<>>, <<snd.vals[6], snd.vals[7]>>)>>

\* The values the sampler of the Measurement gate g has declared so far.
DeclaredBy(g) ==
    LET snds == SelectSeq(trace, LAMBDA e : IsStep(e) /\ e.vals[1] = g.sampler)
    IN  [k \in 1..Len(snds) |-> snds[k].vals[4]]

\* C4: one application of a Measurement makes exactly these calls in this
\* order: peak_measurement, one step of the sampler, the append to the
\* outcome log, set_bit of output_bit if one was given, project_measurement,
\* set_bit of real_output_bit if one was given, the product into
\* classical_probability; and the log of every Measurement holds the values
\* its sampler declared, one per application, in order.
C4_MeasurementSteps ==
    /\ [](\A k \in 1..Len(gates) :
              gates[k].is_measurement =>
                  gates[k].measurements = DeclaredBy(gates[k]))
    /\ [][MeasurementApplied =>
              /\ Len(NewEvents) >= 2
              /\ IsStep(NewEvents[2])
              /\ NewEvents[2].vals[1] = gates[pc].sampler
              /\ NewEvents = StepsOfMeasurement(gates[pc], NewEvents[2])]_vars

\* The step applies a gate that is no Measurement.
GateApplied == pc > 0 /\ ~gates[pc].is_measurement

\* The primary operands of a gate: the last entries of involved_qubits, as
\* many as the gate has operands.
PrimaryOperands(g) ==
    LET n == IF g.kind = "CPhase" THEN 2 ELSE 1
        q == g.involved_qubits
    IN  SubSeq(q, Len(q) - n + 1, Len(q))

\* The calls of engine operations among the events a step appends.
EngineCalls == SelectSeq(NewEvents, LAMBDA e : e.ev # "ensure_classical")

\* C5: applying a gate that is no Measurement invokes its operation exactly
\* once, on its primary operands and with its parameters, when its
\* conditional_bit is set and that bit is 1; invokes nothing when that bit
\* is 0; and invokes it on all involved qubits when no conditional_bit is
\* set.
C5_GateDispatch ==
    [][GateApplied =>
          LET g == gates[pc]
          IN  /\ (g.conditional_bit # None /\ classical[g.conditional_bit] = 1)
                 => EngineCalls = <<Event(g.method_name, PrimaryOperands(g),
                                          g.method_params)>>
              /\ (g.conditional_bit # None /\ classical[g.conditional_bit] = 0)
                 => EngineCalls = <<>>
              /\ g.conditional_bit = None
                 => EngineCalls = <<Event(g.method_name, g.involved_qubits,
                                          g.method_params)>>]_vars

RatLeq(x, y) == x[1] * y[2] <= y[1] * x[2]
RatEq(x, y) == x[1] * y[2] = y[1] * x[2]

\* The product of the conditional probabilities the samplers returned in
\* the events ev.
RECURSIVE ProductOfSteps(_)
ProductOfSteps(ev) ==
    IF ev = <<>> THEN One
    ELSE LET e == ev[Len(ev)]
             rest == ProductOfSteps(SubSeq(ev, 1, Len(ev) - 1))
         IN  IF IsStep(e) THEN RatMul(rest, <<e.vals[6], e.vals[7]>>) ELSE rest

\* C6: classical_probability is the product of the conditional
\* probabilities returned so far (1 before any measurement), it is 1 while
\* every sampler is a selection or noiseless sampler, it never increases and
\* a gate that is no Measurement leaves it unchanged.
C6_ClassicalProbability ==
    /\ [](/\ RatEq(classical_probability, ProductOfSteps(trace))
          /\ (\A i \in 1..Len(samplers) :
                  samplers[i].kind \in {"selection", "uniform"})
             => RatEq(classical_probability, One))
    /\ [][/\ RatLeq(classical_probability', classical_probability)
          /\ GateApplied => classical_probability' = classical_probability]_vars

\* Two measurements with noisy samplers were applied and the probability
\* fell below each of the two factors.
C6_Witness ==
    /\ Cardinality(Steps) = 2
    /\ \A k \in Steps :
           /\ trace[k].vals[6] < trace[k].vals[7]
           /\ ~RatLeq(<<trace[k].vals[6], trace[k].vals[7]>>, classical_probability)

\* C17: applying a gate that is no Measurement leaves every classical bit
\* as it was; applying a Measurement sets output_bit to the declared value
\* and real_output_bit to the projected value, for every bit identity that
\* was given, and changes no other classical bit.
C17_ClassicalRegister ==
    [][/\ GateApplied => classical' = classical
       /\ (MeasurementApplied /\ Len(NewEvents) >= 2) =>
              LET g == gates[pc]
                  declared == NewEvents[2].vals[4]
                  projected == NewEvents[2].vals[5]
              IN  /\ g.real_output_bit # None =>
                         classical'[g.real_output_bit] = projected
                  /\ (g.output_bit # None /\ g.output_bit # g.real_output_bit) =>
                         classical'[g.output_bit] = declared
                  /\ \A n \in Names \ {g.output_bit, g.real_output_bit} :
                         classical'[n] = classical[n]]_vars

---------------------------------------------------------------------------
(* Specification of the life of a circuit: gates are added to a circuit    *)
(* over the qubits "a", which decays, and "b"; then add_waiting_gates,     *)
(* order and apply_to are called on it, in any order and more than once.   *)

MaxLifeGates == 2      \* gates added by hand
MaxLifeLen == 4        \* add_waiting_gates is called while there are fewer gates
MaxApplies == 2        \* calls of apply_to

LifeTimes == {0, 2}

InitLife ==
    /\ InitCommon
    /\ qubits = <<Qubit("a", 5, 7), Qubit("b", Inf, Inf)>>

BuildingLife == Len(gates) < MaxLifeGates /\ last.op \in {"init", "add_gate"}

\* The calls of Circuit.apply_to so far.
Applies == Len(SelectSeq(trace, LAMBDA e : e.ev = "Circuit.apply_to"))

NextLife ==
    \/ /\ BuildingLife
       /\ \E bit \in {"a", "b"}, t \in LifeTimes : AddHadamard(bit, t, None)
    \/ /\ BuildingLife
       /\ \E t \in LifeTimes :
              AddMeasurement("a", t, <<"selection", 1>>, "b", None)
    \/ /\ Len(gates) < MaxLifeLen
       /\ \E only \in {<<>>, <<{"a"}>>} : AddWaitingGates(<<>>, <<>>, only)
    \/ /\ gates # <<>>
       /\ Order
    \/ /\ gates # <<>> /\ Applies < MaxApplies
       /\ StartApply
    \/ ApplyGate
    \/ ApplyMeasurement(1, 1, 0, 0)

SpecLife == InitLife /\ [][NextLife]_vars

\* A gate without the two fields that may change.
Constructed_fields(g) == [g EXCEPT !.annotation = None, !.measurements = <<>>]

\* s is the beginning of t.
IsPrefix(s, t) == Len(s) <= Len(t) /\ SubSeq(t, 1, Len(s)) = s

\* C18: in every step of a circuit's life each gate stays in the circuit
\* with its time, involved qubits, conditional_bit, parameters and every
\* other field it was constructed with; its outcome log only grows at the
\* end, and its annotation changes only in order(), which sets it to the
\* position of the gate in the new order.
C18_GatesImmutable ==
    [][\A i \in 1..Len(gates) :
          \E j \in 1..Len(gates') :
              /\ gates'[j].id = gates[i].id
              /\ Constructed_fields(gates'[j]) = Constructed_fields(gates[i])
              /\ IsPrefix(gates[i].measurements, gates'[j].measurements)
              /\ gates'[j].annotation # gates[i].annotation =>
                     /\ last'.op = "order"
                     /\ gates'[j].annotation = FormatD(j - 1)]_vars

\* The circuit has been given waiting gates, has been ordered and has been
\* applied twice: a Measurement has logged two outcomes.
C18_Witness ==
    /\ pc = 0
    /\ \E i \in 1..Len(gates) : gates[i].kind = "AmpPhDamp"
    /\ \E i \in 1..Len(gates) : gates[i].annotation # None /\ gates[i].time > 0
    /\ \E i \in 1..Len(gates) : Len(gates[i].measurements) = 2

---------------------------------------------------------------------------
(* The density-matrix engine (quantumsim/dm10.py).                         *)
(*                                                                         *)
(* An array object is a record with its identity id; two arrays with the   *)
(* same content are still two objects.  The buffer of a 4x4 operator is    *)
(* represented by a number, its bit pattern.                               *)

\* A numpy array handed to set_ptm: the bit pattern of its buffer, its
\* shape and its dtype.
NdArray(bytes, shape, dtype) == [bytes |-> bytes, shape |-> shape, dtype |-> dtype]

\* The content of an array or of a resident copy.
Content(a) == <<a.bytes, a.shape, a.dtype>>

\* hash() has finitely many values: HashKeys of them here.
HashKeys == 16

\* new_ptm.tobytes(): the buffer alone, without shape and dtype.
tobytes(a) == a.bytes

\* hash(b): not injective, since there are more buffers than hash values.
PtmHash(b) == (7 * b + 3) % HashKeys

\* ga.to_gpu(a): a new array object on the device with the content of a.
to_gpu(id, a) == [id |-> id, bytes |-> a.bytes, shape |-> a.shape, dtype |-> a.dtype]

\* ga.empty((4,4), np.float64): a new array object, not initialised (its
\* bit pattern, -1, is that of no operator).
ga_empty(id) == [id |-> id, bytes |-> 0 - 1, shape |-> "(4, 4)", dtype |-> "float64"]

\* Density.set_ptm(new_ptm) on an engine whose operator is ptm, with the
\* cache as it is: the cache and the operator afterwards, the exception
\* raised or None, and the number of array objects allocated.
set_ptm(cache, ptm, new_ptm, id) ==
    LET key == PtmHash(tobytes(new_ptm))
    IN  IF key \in DOMAIN cache
        THEN [cache |-> cache, ptm |-> cache[key], exc |-> None, made |-> 0]
        ELSE IF new_ptm.shape # "(4, 4)" \/ new_ptm.dtype # "float64"
        THEN [cache |-> cache, ptm |-> ptm, exc |-> "AssertionError", made |-> 0]
        ELSE LET copy == to_gpu(id, new_ptm)
                 stored == [k \in DOMAIN cache \cup {key} |->
                               IF k = key THEN copy ELSE cache[k]]
             IN  [cache |-> stored, ptm |-> stored[key], exc |-> None, made |-> 1]

\* The data of an engine of n qubits is an array of 4^n numbers, one for
\* each choice of a label 0..3 (ground, x, y, excited) per qubit; the label
\* of qubit q is digit q of the index in base 4.  The array is represented
\* by its entries that are not zero, nz, as whole multiples of 1/den.
DataArray(id, size, dtype, den, nz) ==
    [id |-> id, size |-> size, dtype |-> dtype, den |-> den, nz |-> nz]

\* The largest number of qubits Density accepts.
MaxQubits == 15

\* The index of the entry of the computational basis state b of n qubits:
\* label 0 for a bit 0 and label 3 for a bit 1.
RECURSIVE DiagIndex(_, _)
DiagIndex(b, n) ==
    IF n = 0 THEN 0
    ELSE IF n = 1 THEN 3 * (b % 2)
    ELSE LET h == n \div 2
         IN  DiagIndex(b % (2 ^ h), h) + (4 ^ h) * DiagIndex(b \div (2 ^ h), n - h)

\* The sources Density.__init__ is given: None, a dense numpy.ndarray of
\* shape (rows, cols) (a diagonal matrix, diag its entries that are not 0),
\* an array on the device, or an object of another type.
NoSource == [kind |-> "None"]
DenseSource(rows, cols, diag) == [kind |-> "ndarray", rows |-> rows, cols |-> cols, diag |-> diag]
DeviceSource(array) == [kind |-> "GPUArray", array |-> array]
OtherSource(type) == [kind |-> type]

\* The conversion of a dense diagonal matrix of shape (2^n, 2^n) into the
\* engine's basis (kernels bit_to_pauli_basis and pauli_reshuffle).
from_dense(id, n, diag) ==
    DataArray(id, 4 ^ n, "float64", 1,
              [i \in {DiagIndex(b, n) : b \in DOMAIN diag} |->
                  diag[CHOOSE b \in DOMAIN diag : DiagIndex(b, n) = i]])

\* A faulty constructor that copies a device array instead of adopting it.
Density_copying(no_qubits, data, id) ==
    LET failed(exc, made) == [exc |-> exc, dm |-> <<>>, made |-> made]
        made(array, n) ==
            [exc |-> None,
             dm |-> <<[no_qubits |-> no_qubits, size |-> 4 ^ no_qubits,
                       data |-> array, ptm |-> ga_empty(id)]>>,
             made |-> n]
    IN  IF no_qubits < 0 THEN failed("ValueError", 0)
        ELSE IF no_qubits > MaxQubits THEN failed("ValueError", 1)
        ELSE IF data.kind = "ndarray"
        THEN IF data.rows # 2 ^ no_qubits \/ data.cols # 2 ^ no_qubits
             THEN failed("AssertionError", 1)
             ELSE made(from_dense(id + 2, no_qubits, data.diag), 3)
        ELSE IF data.kind = "GPUArray"
        THEN IF data.array.size # 4 ^ no_qubits \/ data.array.dtype # "float64"
             THEN failed("AssertionError", 1)
             ELSE made([data.array EXCEPT !.id = id + 1], 2)
        ELSE IF data.kind = "None"
        THEN made(DataArray(id + 1, 4 ^ no_qubits, "float64", 1, (0 :> 1)), 2)
        ELSE failed("ValueError", 1)

\* A faulty constructor that rejects 15 qubits as well.
Density_strict(no_qubits, data, id) ==
    LET failed(exc, made) == [exc |-> exc, dm |-> <<>>, made |-> made]
        made(array, n) ==
            [exc |-> None,
             dm |-> <<[no_qubits |-> no_qubits, size |-> 4 ^ no_qubits,
                       data |-> array, ptm |-> ga_empty(id)]>>,
             made |-> n]
    IN  IF no_qubits < 0 THEN failed("ValueError", 0)
        ELSE IF no_qubits >= MaxQubits THEN failed("ValueError", 1)
        ELSE IF data.kind = "ndarray"
        THEN IF data.rows # 2 ^ no_qubits \/ data.cols # 2 ^ no_qubits
             THEN failed("AssertionError", 1)
             ELSE made(from_dense(id + 2, no_qubits, data.diag), 3)
        ELSE IF data.kind = "GPUArray"
        THEN IF data.array.size # 4 ^ no_qubits \/ data.array.dtype # "float64"
             THEN failed("AssertionError", 1)
             ELSE made(data.array, 1)
        ELSE IF data.kind = "None"
        THEN made(DataArray(id + 1, 4 ^ no_qubits, "float64", 1, (0 :> 1)), 2)
        ELSE failed("ValueError", 1)

\* Density.__init__(no_qubits, data): the exception raised or None, the
\* instance constructed (<<>> when an exception is raised) and the number
\* of array objects allocated, the first with identity id.
Density(no_qubits, data, id) ==
    LET failed(exc, made) == [exc |-> exc, dm |-> <<>>, made |-> made]
        made(array, n) ==
            [exc |-> None,
             dm |-> <<[no_qubits |-> no_qubits, size |-> 4 ^ no_qubits,
                       data |-> array, ptm |-> ga_empty(id)]>>,
             made |-> n]
    IN  IF no_qubits < 0 THEN failed("ValueError", 0)
        ELSE IF no_qubits > MaxQubits THEN failed("ValueError", 1)
        ELSE IF data.kind = "ndarray"
        THEN IF data.rows # 2 ^ no_qubits \/ data.cols # 2 ^ no_qubits
             THEN failed("AssertionError", 1)
             ELSE made(from_dense(id + 2, no_qubits, data.diag), 3)
        ELSE IF data.kind = "GPUArray"
        THEN IF data.array.size # 4 ^ no_qubits \/ data.array.dtype # "float64"
             THEN failed("AssertionError", 1)
             ELSE made(data.array, 1)
        ELSE IF data.kind = "None"
        THEN made(DataArray(id + 1, 4 ^ no_qubits, "float64", 1, (0 :> 1)), 2)
        ELSE failed("ValueError", 1)

\* The variables of the circuit, which no call on a Density touches.
circuit_vars == <<qubits, gates, next_id, samplers, classical,
                  classical_probability, trace, pc, last>>

\* No circuit: the circuit variables of a behaviour that only uses engines.
NoCircuit ==
    /\ qubits = <<>>
    /\ gates = <<>>
    /\ next_id = 1
    /\ samplers = <<>>
    /\ classical = [n \in Names |-> 0]
    /\ classical_probability = One
    /\ trace = <<>>
    /\ pc = 0
    /\ last = [op |-> "init", pre_gates |-> <<>>, tmin |-> <<>>, tmax |-> <<>>,
               only_qubits |-> <<>>]

\* dms[d].set_ptm(new_ptm), the whole method.
SetPtm(d, new_ptm) ==
    LET r == set_ptm(ptm_cache, dms[d].ptm, new_ptm, next_obj)
    IN  /\ ptm_cache' = r.cache
        /\ dms' = [dms EXCEPT ![d].ptm = r.ptm]
        /\ next_obj' = next_obj + r.made
        /\ err' = r.exc
        /\ call' = [op |-> "set_ptm", n |-> call.n + 1, dm |-> d,
                    arg |-> new_ptm, pre_cache |-> ptm_cache]
        /\ UNCHANGED <<threads, circuit_vars>>

---------------------------------------------------------------------------
(* Specification of the operator cache: two engines of one qubit share the *)
(* cache, and set_ptm is called on them with some arrays, one call after   *)
(* the other.                                                              *)

MaxSetPtm == 3

\* The arrays given to set_ptm: three bit patterns, two of which have the
\* same hash, as 4x4 or flat arrays of float64 or int64.
PtmArrays ==
    {NdArray(b, sh, dt) : b \in {0, 1, HashKeys},
                          sh \in {"(4, 4)", "(16,)"},
                          dt \in {"float64", "int64"}}

InitCache ==
    /\ NoCircuit
    /\ err = None
    /\ ptm_cache = <<>>
    /\ dms = Density(1, NoSource, 1).dm \o Density(1, NoSource, 3).dm
    /\ next_obj = 5
    /\ threads = <<>>
    /\ call = [op |-> "init", n |-> 0]

NextCache ==
    /\ call.n < MaxSetPtm
    /\ \E d \in 1..Len(dms), a \in PtmArrays : SetPtm(d, a)

SpecCache == InitCache /\ [][NextCache]_vars

---------------------------------------------------------------------------
(* Properties of the operator cache.                                       *)

\* The resident copies.
Resident == {ptm_cache[k] : k \in DOMAIN ptm_cache}

\* C12: the cache holds at most one resident copy per content; a call of
\* set_ptm keeps every entry as it was, leaves the cache unchanged when the
\* content of its argument is resident already, and when it returns the
\* engine's operator is the resident copy with the content of the argument.
C12_OperatorCache ==
    /\ \A k1, k2 \in DOMAIN ptm_cache :
           Content(ptm_cache[k1]) = Content(ptm_cache[k2]) => k1 = k2
    /\ call.op = "set_ptm" =>
           /\ \A k \in DOMAIN call.pre_cache :
                  k \in DOMAIN ptm_cache /\ ptm_cache[k] = call.pre_cache[k]
           /\ (\E k \in DOMAIN call.pre_cache :
                   Content(call.pre_cache[k]) = Content(call.arg))
              => ptm_cache = call.pre_cache
           /\ err = None =>
                  /\ dms[call.dm].ptm \in Resident
                  /\ Content(dms[call.dm].ptm) = Content(call.arg)

---------------------------------------------------------------------------
(* set_ptm called from several threads.  A thread runs the statements of   *)
(* set_ptm one at a time and another thread may run between any two of     *)
(* them; a single dictionary operation is atomic.                          *)

\* A thread about to call dms[d].set_ptm(new_ptm).
Thread(d, new_ptm) ==
    [pc |-> "lookup", dm |-> d, arg |-> new_ptm, copy |-> <<>>, exc |-> None]

\* A faulty insertion that refuses a key that is present.
ptm_store_once(cache, key, copy) ==
    IF key \in DOMAIN cache
    THEN [cache |-> cache, exc |-> "KeyError"]
    ELSE [cache |-> [k \in DOMAIN cache \cup {key} |->
                        IF k = key THEN copy ELSE cache[k]],
          exc |-> None]

\* self._ptm_cache[key] = copy: the cache afterwards and the exception.
ptm_store(cache, key, copy) ==
    [cache |-> [k \in DOMAIN cache \cup {key} |->
                   IF k = key THEN copy ELSE cache[k]],
     exc |-> None]

\* try: self.ptm = self._ptm_cache[key]   except KeyError: ...
ThreadLookup(t) ==
    LET th == threads[t]
        key == PtmHash(tobytes(th.arg))
    IN  /\ th.pc = "lookup"
        /\ IF key \in DOMAIN ptm_cache
           THEN /\ dms' = [dms EXCEPT ![th.dm].ptm = ptm_cache[key]]
                /\ threads' = [threads EXCEPT ![t].pc = "done"]
           ELSE /\ dms' = dms
                /\ threads' = [threads EXCEPT ![t].pc = "check"]
        /\ UNCHANGED <<ptm_cache, next_obj, call, err, circuit_vars>>

\* assert new_ptm.shape == (4,4); assert new_ptm.dtype == np.float64
ThreadCheck(t) ==
    LET th == threads[t]
    IN  /\ th.pc = "check"
        /\ threads' = IF th.arg.shape # "(4, 4)" \/ th.arg.dtype # "float64"
                      THEN [threads EXCEPT ![t].pc = "done",
                                           ![t].exc = "AssertionError"]
                      ELSE [threads EXCEPT ![t].pc = "upload"]
        /\ UNCHANGED <<ptm_cache, next_obj, dms, call, err, circuit_vars>>

\* ga.to_gpu(new_ptm)
ThreadUpload(t) ==
    LET th == threads[t]
    IN  /\ th.pc = "upload"
        /\ threads' = [threads EXCEPT ![t].pc = "store",
                                      ![t].copy = <<to_gpu(next_obj, th.arg)>>]
        /\ next_obj' = next_obj + 1
        /\ UNCHANGED <<ptm_cache, dms, call, err, circuit_vars>>

\* self._ptm_cache[key] = <the copy>
ThreadStore(t) ==
    LET th == threads[t]
        r == ptm_store(ptm_cache, PtmHash(tobytes(th.arg)), th.copy[1])
    IN  /\ th.pc = "store"
        /\ ptm_cache' = r.cache
        /\ threads' = IF r.exc # None
                      THEN [threads EXCEPT ![t].pc = "done", ![t].exc = r.exc]
                      ELSE [threads EXCEPT ![t].pc = "read"]
        /\ UNCHANGED <<next_obj, dms, call, err, circuit_vars>>

\* self.ptm = self._ptm_cache[key]
ThreadRead(t) ==
    LET th == threads[t]
    IN  /\ th.pc = "read"
        /\ dms' = [dms EXCEPT ![th.dm].ptm = ptm_cache[PtmHash(tobytes(th.arg))]]
        /\ threads' = [threads EXCEPT ![t].pc = "done"]
        /\ UNCHANGED <<ptm_cache, next_obj, call, err, circuit_vars>>

---------------------------------------------------------------------------
(* Specification of concurrent insertion: MaxThreads threads call set_ptm  *)
(* with arrays of one and the same content, each on one of two engines,    *)
(* and the cache holds nothing under the key of that content: it is empty  *)
(* or holds another operator.                                              *)

MaxThreads == 2

\* The content the threads insert, and another one.
InsertedArray == NdArray(0, "(4, 4)", "float64")
OtherArray == NdArray(1, "(4, 4)", "float64")

InitThreads ==
    /\ NoCircuit
    /\ err = None
    /\ dms = Density(1, NoSource, 1).dm \o Density(1, NoSource, 3).dm
    /\ \/ ptm_cache = <<>> /\ next_obj = 5
       \/ /\ ptm_cache = set_ptm(<<>>, ga_empty(1), OtherArray, 5).cache
          /\ next_obj = 6
    /\ threads \in [1..MaxThreads -> {Thread(d, InsertedArray) : d \in 1..2}]
    /\ call = [op |-> "init", n |-> 0]

NextThreads ==
    \E t \in 1..MaxThreads :
        \/ ThreadLookup(t)
        \/ ThreadCheck(t)
        \/ ThreadUpload(t)
        \/ ThreadStore(t)
        \/ ThreadRead(t)

SpecThreads == InitThreads /\ [][NextThreads]_vars

\* Every thread has returned from set_ptm.
AllDone == threads # <<>> /\ \A t \in DOMAIN threads : threads[t].pc = "done"

\* C13: no call raises, and when both calls have returned the cache holds
\* exactly one entry with the inserted content and the operator of each
\* caller's engine has that content.
C13_ConcurrentInsertion ==
    /\ \A t \in DOMAIN threads : threads[t].exc = None
    /\ AllDone =>
           /\ Cardinality({k \in DOMAIN ptm_cache :
                  Content(ptm_cache[k]) = Content(InsertedArray)}) = 1
           /\ \A t \in DOMAIN threads :
                  Content(dms[threads[t].dm].ptm) = Content(threads[t].arg)

\* Two threads both missed and both inserted: the copy of one replaced the
\* copy of the other, which is still the operator of an engine.
C13_Witness ==
    /\ AllDone
    /\ \E t, u \in DOMAIN threads :
           /\ t # u
           /\ threads[t].copy # <<>> /\ threads[u].copy # <<>>
           /\ threads[t].copy[1] \notin Resident
           /\ dms[threads[t].dm].ptm = threads[t].copy[1]

---------------------------------------------------------------------------
(* The operators of the engine.  An operator is a 4x4 matrix acting on the *)
(* four labels 0, x, y, 1 of one qubit.  The engine's x and y coefficients *)
(* carry a factor sqrt(1/2); here a coefficient of x or y is kept as the   *)
(* engine's coefficient divided by sqrt(1/2), so that every operator below *)
(* has rational entries: the matrix of an operator is kept as whole        *)
(* entries m[row][column] over one denominator den, in lowest terms.       *)

RECURSIVE Gcd(_, _)
Gcd(a, b) ==
    IF a < 0 THEN Gcd(0 - a, b)
    ELSE IF b < 0 THEN Gcd(a, 0 - b)
    ELSE IF b = 0 THEN a
    ELSE Gcd(b, a % b)

\* The rational matrix with entries m[r][c] / den, in lowest terms.
Matrix(den, m) ==
    LET g4(row) == Gcd(Gcd(row[1], row[2]), Gcd(row[3], row[4]))
        g == Gcd(den, Gcd(Gcd(g4(m[1]), g4(m[2])), Gcd(g4(m[3]), g4(m[4]))))
    IN  [den |-> den \div g,
         m |-> [r \in 1..4 |-> [c \in 1..4 |-> m[r][c] \div g]]]

\* np.dot(a, b) of two 4x4 matrices.
dot(a, b) ==
    Matrix(a.den * b.den,
           [r \in 1..4 |-> [c \in 1..4 |->
               a.m[r][1] * b.m[1][c] + a.m[r][2] * b.m[2][c]
               + a.m[r][3] * b.m[3][c] + a.m[r][4] * b.m[4][c]]])

\* to_0xy1_basis(ptm) = t . ptm . t of a 4x4 matrix in the Pauli basis, with
\* t = sqrt(1/2) * <<1,0,0,1>, <0,sqrt 2,0,0>, <0,0,sqrt 2,0>, <1,0,0,-1>>.
\* With the x and y coefficients divided by sqrt(1/2) the factor on the
\* left becomes sqrt(1/2) * <<1,0,0,1>, <0,2,0,0>, <0,0,2,0>, <1,0,0,-1>>
\* and the one on the right sqrt(1/2) * <<1,0,0,1>, <0,1,0,0>, <0,0,1,0>,
\* <1,0,0,-1>>.
to_0xy1_basis(ptm) ==
    dot(Matrix(2, <<<<1, 0, 0, 1>>, <<0, 2, 0, 0>>, <<0, 0, 2, 0>>, <<1, 0, 0, 0 - 1>>>>),
        dot(ptm,
            Matrix(1, <<<<1, 0, 0, 1>>, <<0, 1, 0, 0>>, <<0, 0, 1, 0>>, <<1, 0, 0, 0 - 1>>>>)))

\* A faulty Hadamard operator, whose last row has lost its sign.
hadamard_ptm_signless ==
    Matrix(2, <<<<1, 1, 0, 1>>, <<2, 0, 0, 0 - 2>>, <<0, 0, 0 - 2, 0>>, <<1, 1, 0, 1>>>>)

\* hadamard_ptm(): <<.5, s, 0, .5>, <s, 0, 0, -s>, <0, 0, -1, 0>,
\* <.5, -s, 0, .5>> with s = sqrt(1/2); an entry in a row x or y is divided
\* by s and one in a column x or y is multiplied by s.
hadamard_ptm ==
    Matrix(2, <<<<1, 1, 0, 1>>, <<2, 0, 0, 0 - 2>>, <<0, 0, 0 - 2, 0>>, <<1, 0 - 1, 0, 1>>>>)

\* The damping parameters: gamma = g / den and lamda = l / den, chosen so
\* that sqrt((1 - gamma) * (1 - lamda)) is rational.
Dampings ==
    <<[g |-> 0, l |-> 0, den |-> 1], [g |-> 1, l |-> 1, den |-> 2],
      [g |-> 1, l |-> 0, den |-> 1], [g |-> 3, l |-> 0, den |-> 4]>>

\* A faulty damping operator, left in the Pauli basis.
amp_ph_damping_ptm_pauli(p) ==
    LET q == CHOOSE x \in 0..p.den : x * x = (p.den - p.g) * (p.den - p.l)
    IN  Matrix(p.den,
            <<<<p.den, 0, 0, 0>>,
              <<0, q, 0, 0>>,
              <<0, 0, q, 0>>,
              <<p.g, 0, 0, p.den - p.g>>>>)

\* amp_ph_damping_ptm(gamma, lamda)
amp_ph_damping_ptm(p) ==
    LET q == CHOOSE x \in 0..p.den : x * x = (p.den - p.g) * (p.den - p.l)
    IN  to_0xy1_basis(Matrix(p.den,
            <<<<p.den, 0, 0, 0>>,
              <<0, q, 0, 0>>,
              <<0, 0, q, 0>>,
              <<p.g, 0, 0, p.den - p.g>>>>))

\* The angles: cos(angle) = c / den and sin(angle) = s / den.
Angles ==
    <<[c |-> 1, s |-> 0, den |-> 1], [c |-> 0, s |-> 1, den |-> 1],
      [c |-> 3, s |-> 4, den |-> 5]>>

\* rotate_x_ptm(angle): the 3x3 rotation, which to_0xy1_basis extends by a
\* first column of zeros and a first row <1, 0, 0, 0>.
rotate_x_ptm(a) ==
    to_0xy1_basis(Matrix(a.den,
        <<<<a.den, 0, 0, 0>>,
          <<0, a.den, 0, 0>>,
          <<0, 0, a.c, 0 - a.s>>,
          <<0, 0, a.s, a.c>>>>))

\* A faulty rotation operator, left in the Pauli basis.
rotate_y_ptm_pauli(a) ==
    Matrix(a.den,
        <<<<a.den, 0, 0, 0>>,
          <<0, a.c, 0, a.s>>,
          <<0, 0, a.den, 0>>,
          <<0, 0 - a.s, 0, a.c>>>>)

\* rotate_y_ptm(angle)
rotate_y_ptm(a) ==
    to_0xy1_basis(Matrix(a.den,
        <<<<a.den, 0, 0, 0>>,
          <<0, a.c, 0, a.s>>,
          <<0, 0, a.den, 0>>,
          <<0, 0 - a.s, 0, a.c>>>>))

\* rotate_z_ptm(angle)
rotate_z_ptm(a) ==
    to_0xy1_basis(Matrix(a.den,
        <<<<a.den, 0, 0, 0>>,
          <<0, a.c, 0 - a.s, 0>>,
          <<0, a.s, a.c, 0>>,
          <<0, 0, 0, a.den>>>>))

\* The matrices the methods of the engine build.  The buffer of the array
\* of such a matrix is represented by the first position of the matrix in
\* this list, so that equal matrices have equal buffers and no two of them
\* have the same hash.
PtmTable ==
    <<hadamard_ptm>>
    \o [i \in 1..Len(Angles) |-> rotate_x_ptm(Angles[i])]
    \o [i \in 1..Len(Angles) |-> rotate_y_ptm(Angles[i])]
    \o [i \in 1..Len(Angles) |-> rotate_z_ptm(Angles[i])]
    \o [i \in 1..Len(Dampings) |-> amp_ph_damping_ptm(Dampings[i])]

\* np.array(..., np.float64) of a matrix of the list.
np_array(m) ==
    NdArray(Min({i \in 1..Len(PtmTable) : PtmTable[i] = m}), "(4, 4)", "float64")

---------------------------------------------------------------------------
(* The kernels, which work on the data of an engine in place.              *)

\* The label of qubit q in index i, index i with that label replaced by c,
\* and index i with the digit of qubit q removed.
Label(i, q) == (i \div (4 ^ q)) % 4
WithLabel(i, q, c) == i + (c - Label(i, q)) * (4 ^ q)
WithoutQubit(i, q) == (i \div (4 ^ (q + 1))) * (4 ^ q) + (i % (4 ^ q))

\* The half of the finite set of numbers S with the smaller elements.
LowerHalf(S) ==
    {x \in S : Cardinality({y \in S : y <= x}) <= Cardinality(S) \div 2}

\* The greatest common divisor and the sum of the f[i] for i in S, by
\* halving S.
RECURSIVE GcdOver(_, _)
GcdOver(f, S) ==
    IF S = {} THEN 0
    ELSE IF Cardinality(S) = 1 THEN Gcd(f[CHOOSE i \in S : TRUE], 0)
    ELSE Gcd(GcdOver(f, LowerHalf(S)), GcdOver(f, S \ LowerHalf(S)))

RECURSIVE SumOver(_, _)
SumOver(f, S) ==
    IF S = {} THEN 0
    ELSE IF Cardinality(S) = 1 THEN f[CHOOSE i \in S : TRUE]
    ELSE SumOver(f, LowerHalf(S)) + SumOver(f, S \ LowerHalf(S))

\* The array with identity id and entries f[i] / den, in lowest terms and
\* without the entries that are zero.
Reduced(id, size, den, f) ==
    LET keep == {i \in DOMAIN f : f[i] # 0}
        g == Gcd(den, GcdOver(f, keep))
    IN  DataArray(id, size, "float64", den \div g, [i \in keep |-> f[i] \div g])

\* An array whose memory was allocated and never written: its denominator
\* 0 stands for values that are not defined.
ga_empty_data(id, size) == DataArray(id, size, "float64", 0, <<>>)

\* Kernel single_qubit_ptm: the operator ptm applied to the labels of qubit
\* bit, for every choice of the labels of the other qubits.
single_qubit_ptm(data, ptm, bit) ==
    LET M == PtmTable[ptm.bytes]
        old(i) == IF i \in DOMAIN data.nz THEN data.nz[i] ELSE 0
        touched == {WithLabel(i, bit, r) : i \in DOMAIN data.nz, r \in 0..3}
    IN  Reduced(data.id, data.size, data.den * M.den,
                [i \in touched |->
                    LET row == M.m[Label(i, bit) + 1]
                    IN  row[1] * old(WithLabel(i, bit, 0))
                        + row[2] * old(WithLabel(i, bit, 1))
                        + row[3] * old(WithLabel(i, bit, 2))
                        + row[4] * old(WithLabel(i, bit, 3))])

\* Kernel cphase: the sign of an entry is flipped where the labels of both
\* qubits are x or y and at least one of them is y.
cphase_kernel(data, bit0, bit1) ==
    Reduced(data.id, data.size, data.den,
            [i \in DOMAIN data.nz |->
                IF /\ Label(i, bit0) \in {1, 2}
                   /\ Label(i, bit1) \in {1, 2}
                   /\ 2 \in {Label(i, bit0), Label(i, bit1)}
                THEN 0 - data.nz[i] ELSE data.nz[i]])

\* Kernel dm_reduce: the entries where qubit bit has label 0 go to d0 and
\* those where it has label 3 go to d1, both without the digit of the qubit.
dm_reduce(data, bit, id, label) ==
    LET from == {i \in DOMAIN data.nz : Label(i, bit) = label}
    IN  Reduced(id, data.size \div 4, data.den,
                [j \in {WithoutQubit(i, bit) : i \in from} |->
                    data.nz[CHOOSE i \in from : WithoutQubit(i, bit) = j]])

\* Kernel get_diag followed by ga.sum: the sum of the entries all of whose
\* labels are 0 or 3, as a fraction <<numerator, denominator>>.
get_diag_sum(dm) ==
    LET diag == {i \in DOMAIN dm.data.nz :
                    \A q \in 0..(dm.no_qubits - 1) : Label(i, q) \in {0, 3}}
        g == Gcd(SumOver(dm.data.nz, diag), dm.data.den)
    IN  IF g = 0 THEN <<0, dm.data.den>>
        ELSE <<SumOver(dm.data.nz, diag) \div g, dm.data.den \div g>>

\* What the launch of a kernel does with a negative value for a parameter
\* declared unsigned.  The launcher is not part of this repository: either
\* packing the arguments raises struct.error, or the value wraps around to
\* a qubit that does not exist and the kernel writes nothing.
LaunchOutcomes == {"struct.error", "wrapped"}

---------------------------------------------------------------------------
(* The methods of Density that take a qubit index.  A call records in call *)
(* its name, its arguments, the engines before it and what it returned.    *)

\* A faulty trace that sums every entry.
Trace_all(dm) ==
    <<SumOver(dm.data.nz, DOMAIN dm.data.nz), dm.data.den>>

\* Density.trace()
Trace(dm) == get_diag_sum(dm)

\* Density.apply_ptm(bit) on the engine dm: the exception raised or None and
\* the data afterwards; out is what a launch with a negative index does.
apply_ptm(dm, bit, out) ==
    IF ~(bit < dm.no_qubits)
    THEN [exc |-> "AssertionError", data |-> dm.data]
    ELSE IF bit < 0
    THEN [exc |-> IF out = "wrapped" THEN None ELSE out, data |-> dm.data]
    ELSE [exc |-> None, data |-> single_qubit_ptm(dm.data, dm.ptm, bit)]

\* self.set_ptm(new_ptm); self.apply_ptm(bit): the body of hadamard,
\* amp_ph_damping, rotate_x, rotate_y and rotate_z.
PtmMethod(op, d, param, new_ptm, bit, out) ==
    LET r == set_ptm(ptm_cache, dms[d].ptm, new_ptm, next_obj)
        a == apply_ptm([dms[d] EXCEPT !.ptm = r.ptm], bit, out)
    IN  /\ ptm_cache' = r.cache
        /\ next_obj' = next_obj + r.made
        /\ dms' = IF r.exc # None THEN dms
                  ELSE [dms EXCEPT ![d].ptm = r.ptm, ![d].data = a.data]
        /\ err' = IF r.exc # None THEN r.exc ELSE a.exc
        /\ call' = [op |-> op, n |-> call.n + 1, dm |-> d, bits |-> <<bit>>,
                    param |-> param, pre |-> dms, ret |-> <<>>]
        /\ UNCHANGED <<threads, circuit_vars>>

hadamard(d, bit, out) ==
    PtmMethod("hadamard", d, <<>>, np_array(hadamard_ptm), bit, out)

amp_ph_damping(d, bit, p, out) ==
    PtmMethod("amp_ph_damping", d, p, np_array(amp_ph_damping_ptm(p)), bit, out)

rotate_y(d, bit, angle, out) ==
    PtmMethod("rotate_y", d, angle, np_array(rotate_y_ptm(angle)), bit, out)

rotate_x(d, bit, angle, out) ==
    PtmMethod("rotate_x", d, angle, np_array(rotate_x_ptm(angle)), bit, out)

rotate_z(d, bit, angle, out) ==
    PtmMethod("rotate_z", d, angle, np_array(rotate_z_ptm(angle)), bit, out)

\* Density.cphase(bit0, bit1)
cphase(d, bit0, bit1, out) ==
    LET dm == dms[d]
        exc == IF ~(bit0 < dm.no_qubits) \/ ~(bit1 < dm.no_qubits)
               THEN "AssertionError"
               ELSE IF (bit0 < 0 \/ bit1 < 0) /\ out # "wrapped" THEN out
               ELSE None
    IN  /\ dms' = IF exc = None /\ bit0 >= 0 /\ bit1 >= 0
                  THEN [dms EXCEPT ![d].data = cphase_kernel(dm.data, bit0, bit1)]
                  ELSE dms
        /\ err' = exc
        /\ call' = [op |-> "cphase", n |-> call.n + 1, dm |-> d,
                    bits |-> <<bit0, bit1>>, param |-> <<>>, pre |-> dms,
                    ret |-> <<>>]
        /\ UNCHANGED <<ptm_cache, next_obj, threads, circuit_vars>>

\* A faulty measure_ancilla that returns the trace of dm0 for both branches.
measure_ancilla_once(d, bit, out) ==
    LET dm == dms[d]
        filled == bit >= 0
        d0 == IF filled THEN dm_reduce(dm.data, bit, next_obj, 0)
              ELSE ga_empty_data(next_obj, dm.size \div 4)
        d1 == IF filled THEN dm_reduce(dm.data, bit, next_obj + 1, 3)
              ELSE ga_empty_data(next_obj + 1, dm.size \div 4)
        r0 == Density(dm.no_qubits - 1, DeviceSource(d0), next_obj + 2)
        r1 == Density(dm.no_qubits - 1, DeviceSource(d1), next_obj + 2 + r0.made)
        exc == IF ~(bit < dm.no_qubits) THEN "AssertionError"
               ELSE IF bit < 0 /\ out # "wrapped" THEN out
               ELSE IF r0.exc # None THEN r0.exc
               ELSE r1.exc
    IN  /\ err' = exc
        /\ next_obj' = IF exc = "AssertionError" THEN next_obj
                       ELSE IF exc = "struct.error" THEN next_obj + 2
                       ELSE IF r0.exc # None THEN next_obj + 2 + r0.made
                       ELSE next_obj + 2 + r0.made + r1.made
        /\ call' = [op |-> "measure_ancilla", n |-> call.n + 1, dm |-> d,
                    bits |-> <<bit>>, param |-> <<>>, pre |-> dms,
                    ret |-> IF exc # None THEN <<>>
                            ELSE <<[p0 |-> Trace(r0.dm[1]), dm0 |-> r0.dm[1],
                                    p1 |-> Trace(r0.dm[1]), dm1 |-> r1.dm[1]]>>]
        /\ UNCHANGED <<ptm_cache, dms, threads, circuit_vars>>

\* Density.measure_ancilla(bit): d0 and d1 are allocated, filled by the
\* kernel and adopted by two new engines of one qubit less.
measure_ancilla(d, bit, out) ==
    LET dm == dms[d]
        filled == bit >= 0
        d0 == IF filled THEN dm_reduce(dm.data, bit, next_obj, 0)
              ELSE ga_empty_data(next_obj, dm.size \div 4)
        d1 == IF filled THEN dm_reduce(dm.data, bit, next_obj + 1, 3)
              ELSE ga_empty_data(next_obj + 1, dm.size \div 4)
        r0 == Density(dm.no_qubits - 1, DeviceSource(d0), next_obj + 2)
        r1 == Density(dm.no_qubits - 1, DeviceSource(d1), next_obj + 2 + r0.made)
        exc == IF ~(bit < dm.no_qubits) THEN "AssertionError"
               ELSE IF bit < 0 /\ out # "wrapped" THEN out
               ELSE IF r0.exc # None THEN r0.exc
               ELSE r1.exc
    IN  /\ err' = exc
        /\ next_obj' = IF exc = "AssertionError" THEN next_obj
                       ELSE IF exc = "struct.error" THEN next_obj + 2
                       ELSE IF r0.exc # None THEN next_obj + 2 + r0.made
                       ELSE next_obj + 2 + r0.made + r1.made
        /\ call' = [op |-> "measure_ancilla", n |-> call.n + 1, dm |-> d,
                    bits |-> <<bit>>, param |-> <<>>, pre |-> dms,
                    ret |-> IF exc # None THEN <<>>
                            ELSE <<[p0 |-> Trace(r0.dm[1]), dm0 |-> r0.dm[1],
                                    p1 |-> Trace(r1.dm[1]), dm1 |-> r1.dm[1]]>>]
        /\ UNCHANGED <<ptm_cache, dms, threads, circuit_vars>>

\* ga.zeros(size, np.float64): a new array object, every entry 0.
ga_zeros(id, size) == DataArray(id, size, "float64", 1, <<>>)

\* drv.memcpy_dtod(dest + 8 * offset, src, src.nbytes): the entries of src
\* are written to dest from entry offset on.
memcpy_dtod(dest, offset, src) ==
    [dest EXCEPT !.den = src.den,
                 !.nz = [j \in {i + offset : i \in DOMAIN src.nz} |-> src.nz[j - offset]]]

\* A faulty add_ancilla whose offset is that of label 1 of the new qubit.
add_ancilla_low(d, anc_st) ==
    LET dm == dms[d]
        new_dm == memcpy_dtod(ga_zeros(next_obj, dm.size * 4),
                              anc_st * (4 ^ dm.no_qubits), dm.data)
        r == Density(dm.no_qubits + 1, DeviceSource(new_dm), next_obj + 1)
    IN  /\ err' = r.exc
        /\ next_obj' = next_obj + 1 + r.made
        /\ call' = [op |-> "add_ancilla", n |-> call.n + 1, dm |-> d,
                    bits |-> <<>>, param |-> anc_st, pre |-> dms, ret |-> r.dm]
        /\ UNCHANGED <<ptm_cache, dms, threads, circuit_vars>>

\* Density.add_ancilla(anc_st): new_dm is allocated, the data is copied
\* into it at 3 * 4^n entries times anc_st (0x3 << 2n, in entries of 8
\* bytes) and a new engine of one qubit more adopts it.
add_ancilla(d, anc_st) ==
    LET dm == dms[d]
        new_dm == memcpy_dtod(ga_zeros(next_obj, dm.size * 4),
                              anc_st * 3 * (4 ^ dm.no_qubits), dm.data)
        r == Density(dm.no_qubits + 1, DeviceSource(new_dm), next_obj + 1)
    IN  /\ err' = r.exc
        /\ next_obj' = next_obj + 1 + r.made
        /\ call' = [op |-> "add_ancilla", n |-> call.n + 1, dm |-> d,
                    bits |-> <<>>, param |-> anc_st, pre |-> dms, ret |-> r.dm]
        /\ UNCHANGED <<ptm_cache, dms, threads, circuit_vars>>

\* The engines the last call returned to its caller.
Returned ==
    IF call.op = "add_ancilla" THEN Range(call.ret)
    ELSE IF call.op = "measure_ancilla" /\ call.ret # <<>>
    THEN {call.ret[1].dm0, call.ret[1].dm1}
    ELSE {}

\* The caller goes on with an engine the last call returned, in the place
\* of the engine the call was made on: dm = dm.add_ancilla(0), or
\* p0, dm, p1, dm1 = dm.measure_ancilla(bit).
Rebind(e) ==
    /\ e \in Returned
    /\ dms' = [dms EXCEPT ![call.dm] = e]
    /\ call' = [op |-> "rebind", n |-> call.n, dm |-> call.dm, bits |-> <<>>,
                param |-> <<>>, pre |-> dms, ret |-> <<>>]
    /\ UNCHANGED <<err, ptm_cache, next_obj, threads, circuit_vars>>

\* Density(no_qubits, data): the new engine joins the engines in use.
Create(no_qubits, data) ==
    LET r == Density(no_qubits, data, next_obj + 1)
    IN  /\ dms' = dms \o r.dm
        /\ next_obj' = next_obj + 1 + r.made
        /\ err' = r.exc
        /\ call' = [op |-> "Density", n |-> call.n + 1, dm |-> Len(dms) + 1,
                    bits |-> <<>>, param |-> [no_qubits |-> no_qubits, data |-> data],
                    pre |-> dms, ret |-> <<>>]
        /\ UNCHANGED <<ptm_cache, threads, circuit_vars>>

---------------------------------------------------------------------------
(* Specification of the engine: engines are constructed, from every kind   *)
(* of source, and the methods that take a qubit index are called on them   *)
(* with indices below, in and above the range of their qubits.             *)

MaxEngines == 1
MaxCalls == 3

\* The numbers of qubits asked for, up to one more than the engine accepts.
QubitCounts == {0, 1, 2, MaxQubits, MaxQubits + 1}

\* The qubit indices given to the methods.
BitArgs == {0 - 1, 0, 1, 2}

\* The data of a state on the device that has every kind of entry: entry i
\* is (i + 1) / 8, for at most two qubits.
AnyState(id, size, dtype) ==
    DataArray(id, size, dtype, 8,
              [i \in 0..((IF size < 16 THEN size ELSE 16) - 1) |-> i + 1])

\* The sources given to Density(no_qubits, ...): none, a dense matrix of
\* the right shape (the basis state of all qubits excited) or of a wrong
\* shape, a device array of the right or of a wrong size, of float64 or of
\* complex128, and a string.
Sources(no_qubits, id) ==
    {NoSource, OtherSource("str"),
     DenseSource(2 ^ no_qubits, 2 ^ no_qubits, ((2 ^ no_qubits - 1) :> 1)),
     DenseSource(2 ^ no_qubits, 2 * (2 ^ no_qubits), (0 :> 1))}
    \cup {DeviceSource(AnyState(id, size, dtype)) :
             size \in {1, 4, 16, 4 ^ MaxQubits},
             dtype \in {"float64", "complex128"}}

InitEngine ==
    /\ NoCircuit
    /\ err = None
    /\ ptm_cache = <<>>
    /\ dms = <<>>
    /\ next_obj = 1
    /\ threads = <<>>
    /\ call = [op |-> "init", n |-> 0]

NextEngine ==
    /\ call.n < MaxCalls
    /\ \/ /\ Len(dms) < MaxEngines
          /\ \E n \in QubitCounts : \E data \in Sources(n, next_obj) : Create(n, data)
       \/ \E d \in 1..Len(dms), bit \in BitArgs, out \in LaunchOutcomes :
              \/ hadamard(d, bit, out)
              \/ \E p \in Range(Dampings) : amp_ph_damping(d, bit, p, out)
              \/ \E angle \in Range(Angles) :
                     \/ rotate_x(d, bit, angle, out)
                     \/ rotate_y(d, bit, angle, out)
                     \/ rotate_z(d, bit, angle, out)
              \/ \E bit1 \in BitArgs : cphase(d, bit, bit1, out)
              \/ measure_ancilla(d, bit, out)

SpecEngine == InitEngine /\ [][NextEngine]_vars

---------------------------------------------------------------------------
(* Specification of the chains of engines: an engine is constructed, in    *)
(* the ground state or from a device array, qubits are added to it and     *)
(* measured away, and the caller goes on with an engine that was returned. *)
(* The indices are in the range of the qubits of the engine.               *)

MaxChain == 4

\* The numbers of qubits a chain starts with.
ChainCounts == {0, 1, 2, MaxQubits - 1, MaxQubits}

\* The qubit indices given to the methods.
ChainBits == {0, 1, MaxQubits - 1}

\* The values of the qubit add_ancilla adds: ground or excited.
AncillaValues == {0, 1}

NextChain ==
    /\ call.n < MaxChain
    /\ \/ /\ Len(dms) < MaxEngines
          /\ \E n \in ChainCounts :
                 \E data \in {NoSource, DeviceSource(AnyState(next_obj, 4 ^ n, "float64"))} :
                     Create(n, data)
       \/ \E d \in 1..Len(dms) :
              \/ \E anc_st \in AncillaValues : add_ancilla(d, anc_st)
              \/ \E bit \in ChainBits \cap (0..(dms[d].no_qubits - 1)) :
                     \/ measure_ancilla(d, bit, "wrapped")
                     \/ hadamard(d, bit, "wrapped")
       \/ \E e \in Returned : Rebind(e)

SpecChain == InitEngine /\ [][NextChain]_vars

---------------------------------------------------------------------------
(* Specification of the gates: an engine is constructed, in the ground     *)
(* state or from a device array all of whose entries differ, and Hadamard, *)
(* RotateY and CPhase are applied to it and qubits are added to it, with   *)
(* indices in the range of its qubits.                                     *)

MaxUnitary == 4

\* The numbers of qubits an engine starts with.
UnitaryCounts == {0, 1, 2}

\* The data of a state of n qubits on the device: entry i is (i + 1) / 8.
DenseState(id, n) ==
    DataArray(id, 4 ^ n, "float64", 8, [i \in 0..(4 ^ n - 1) |-> i + 1])

NextUnitary ==
    /\ call.n < MaxUnitary
    /\ \/ /\ Len(dms) < MaxEngines
          /\ \E n \in UnitaryCounts :
                 \E data \in {NoSource, DeviceSource(DenseState(next_obj, n))} :
                     Create(n, data)
       \/ \E d \in 1..Len(dms) :
              \/ \E anc_st \in AncillaValues : add_ancilla(d, anc_st)
              \/ \E bit \in 0..(dms[d].no_qubits - 1) :
                     \/ hadamard(d, bit, "wrapped")
                     \/ \E angle \in Range(Angles) : rotate_y(d, bit, angle, "wrapped")
                     \/ \E bit1 \in 0..(dms[d].no_qubits - 1) :
                            cphase(d, bit, bit1, "wrapped")
       \/ \E e \in Returned : Rebind(e)

SpecUnitary == InitEngine /\ [][NextUnitary]_vars

---------------------------------------------------------------------------
(* Specification of the gates that are their own inverse: Hadamard and     *)
(* CPhase are applied, with indices in range, to an engine of two or of    *)
(* four qubits, in the ground state or in a state all of whose entries     *)
(* differ.                                                                 *)

MaxInverse == 3

\* The numbers of qubits of the engine.
InverseCounts == {2, 4}

NextInverse ==
    /\ call.n < MaxInverse
    /\ \/ /\ Len(dms) < MaxEngines
          /\ \E n \in InverseCounts :
                 \E data \in {NoSource, DeviceSource(DenseState(next_obj, n))} :
                     Create(n, data)
       \/ \E d \in 1..Len(dms) :
              \E bit \in 0..(dms[d].no_qubits - 1) :
                  \/ hadamard(d, bit, "wrapped")
                  \/ \E bit1 \in 0..(dms[d].no_qubits - 1) :
                         cphase(d, bit, bit1, "wrapped")

SpecInverse == InitEngine /\ [][NextInverse]_vars

---------------------------------------------------------------------------
(* Properties of the engine.                                               *)

\* The engine a successful Density(...) has just constructed.
Constructed == dms[Len(dms)]

IndexedMethods ==
    {"cphase", "hadamard", "rotate_x", "rotate_y", "rotate_z",
     "amp_ph_damping", "measure_ancilla"}

\* C15: a method that takes a qubit index fails with an assertion error
\* whenever one of its indices is not in 0..no_qubits-1, and then the data
\* and the number of qubits of the engine are as they were.
C15_IndexOutOfRange ==
    (/\ call.op \in IndexedMethods
     /\ \E k \in 1..Len(call.bits) :
            call.bits[k] \notin 0..(call.pre[call.dm].no_qubits - 1)) =>
        /\ err = "AssertionError"
        /\ dms[call.dm].data = call.pre[call.dm].data
        /\ dms[call.dm].no_qubits = call.pre[call.dm].no_qubits

\* The last call was made with every index in range and returned.
InRange ==
    /\ call.op \in IndexedMethods
    /\ \A k \in 1..Len(call.bits) :
           call.bits[k] \in 0..(call.pre[call.dm].no_qubits - 1)

\* The engine of the last call, before and after it.
EngineBefore == call.pre[call.dm]
EngineAfter == dms[call.dm]

\* The fraction x + y.
RatAdd(x, y) == <<x[1] * y[2] + y[1] * x[2], x[2] * y[2]>>

\* C19: amp_ph_damping(bit, gamma, lamda) with bit in range returns and
\* leaves trace() as it was, whatever the state.
C19_DampingPreservesTrace ==
    (call.op = "amp_ph_damping" /\ InRange) =>
        /\ err = None
        /\ RatEq(Trace(EngineAfter), Trace(EngineBefore))

\* Damping with gamma > 0 has moved population of the excited level of the
\* qubit to its ground level.
C19_Witness ==
    /\ call.op = "amp_ph_damping"
    /\ InRange
    /\ call.param.g > 0
    /\ \E i \in DOMAIN EngineBefore.data.nz :
           /\ Label(i, call.bits[1]) = 3
           /\ \A q \in 0..(EngineBefore.no_qubits - 1) : Label(i, q) \in {0, 3}
    /\ EngineAfter.data # EngineBefore.data
    /\ ~RatEq(Trace(EngineBefore), <<0, 1>>)

\* The damping is not degenerate: gamma > 0 and the qubit has population
\* in its excited level.
DampingActs ==
    /\ call.op = "amp_ph_damping"
    /\ InRange
    /\ call.param.g > 0
    /\ \E i \in DOMAIN EngineBefore.data.nz :
           /\ Label(i, call.bits[1]) = 3
           /\ \A q \in 0..(EngineBefore.no_qubits - 1) : Label(i, q) \in {0, 3}

\* The two branches measure_ancilla has returned.
Branches == call.ret[1]

\* C20, as stated: neither damping nor projection preserves the trace; a
\* damping that is not degenerate changes trace(), and a branch of a
\* measurement has the probability of the branch as its trace.
C20_TraceNotPreserved ==
    /\ DampingActs => ~RatEq(Trace(EngineAfter), Trace(EngineBefore))
    /\ (call.op = "measure_ancilla" /\ InRange) =>
           /\ RatEq(Trace(Branches.dm0), Branches.p0)
           /\ RatEq(Trace(Branches.dm1), Branches.p1)

\* C20, amended: damping preserves the trace.  Projection does not: the
\* branches measure_ancilla returns have traces p0 and p1 with p0 + p1 the
\* trace before, so a branch has the trace of the state before exactly when
\* the other branch has probability 0.
C20_OnlyProjectionChangesTrace ==
    /\ (call.op = "amp_ph_damping" /\ InRange) =>
           RatEq(Trace(EngineAfter), Trace(EngineBefore))
    /\ (call.op = "measure_ancilla" /\ InRange) =>
           /\ err = None
           /\ EngineAfter = EngineBefore
           /\ Branches.dm0.no_qubits = EngineBefore.no_qubits - 1
           /\ Branches.dm1.no_qubits = EngineBefore.no_qubits - 1
           /\ RatEq(Trace(Branches.dm0), Branches.p0)
           /\ RatEq(Trace(Branches.dm1), Branches.p1)
           /\ RatEq(RatAdd(Branches.p0, Branches.p1), Trace(EngineBefore))
           /\ RatEq(Branches.p0, Trace(EngineBefore)) <=> RatEq(Branches.p1, <<0, 1>>)
           /\ RatEq(Branches.p1, Trace(EngineBefore)) <=> RatEq(Branches.p0, <<0, 1>>)

\* A measurement both of whose branches have a probability above 0: the
\* trace of each branch is below the trace of the state measured.
C20_Witness ==
    /\ call.op = "measure_ancilla"
    /\ InRange
    /\ err = None
    /\ Branches.p0[1] > 0
    /\ Branches.p1[1] > 0
    /\ ~RatEq(Trace(Branches.dm0), Trace(EngineBefore))

\* C22: measure_ancilla(bit) on an engine of n qubits, bit in range,
\* returns (p0, dm0, p1, dm1) with p0 + p1 the trace of the engine, p0 the
\* trace of dm0 and p1 the trace of dm1; dm0 and dm1 have n - 1 qubits, and
\* the engine is as it was; on a ground state p0 = 1 and p1 = 0.
C22_MeasureAncilla ==
    (call.op = "measure_ancilla" /\ InRange) =>
        /\ err = None
        /\ RatEq(RatAdd(Branches.p0, Branches.p1), Trace(EngineBefore))
        /\ RatEq(Branches.p0, Trace(Branches.dm0))
        /\ RatEq(Branches.p1, Trace(Branches.dm1))
        /\ \A b \in {Branches.dm0, Branches.dm1} :
               /\ b.no_qubits = EngineBefore.no_qubits - 1
               /\ b.data.size = 4 ^ b.no_qubits
        /\ dms = call.pre
        /\ (EngineBefore.data.den = 1 /\ EngineBefore.data.nz = (0 :> 1)) =>
               /\ RatEq(Branches.p0, One)
               /\ RatEq(Branches.p1, <<0, 1>>)

\* A qubit of a state of two qubits that is not a ground state has been
\* measured, and the branches have different probabilities above 0.
C22_Witness ==
    /\ call.op = "measure_ancilla"
    /\ InRange
    /\ err = None
    /\ EngineBefore.no_qubits = 2
    /\ Branches.p0[1] > 0
    /\ Branches.p1[1] > 0
    /\ ~RatEq(Branches.p0, Branches.p1)

---------------------------------------------------------------------------
(* Properties of the chains of engines.                                    *)

\* The engine add_ancilla has returned.
Enlarged == call.ret[1]

Engines == Range(dms) \cup Returned

\* C26: every engine reached by constructions, add_ancilla and
\* measure_ancilla calls has between 0 and 15 qubits and a data array of
\* exactly 4^no_qubits entries; add_ancilla on an engine of 15 qubits raises
\* ValueError and returns no engine; add_ancilla on a smaller engine returns
\* one of one qubit more, and measure_ancilla returns two of one qubit less.
C26_QubitCount ==
    /\ \A e \in Engines :
           /\ e.no_qubits \in 0..MaxQubits
           /\ e.size = 4 ^ e.no_qubits
           /\ e.data.size = 4 ^ e.no_qubits
    /\ call.op = "add_ancilla" =>
           IF EngineBefore.no_qubits = MaxQubits
           THEN err = "ValueError" /\ call.ret = <<>> /\ dms = call.pre
           ELSE /\ err = None
                /\ Enlarged.no_qubits = EngineBefore.no_qubits + 1
    /\ (call.op = "measure_ancilla" /\ InRange) =>
           /\ err = None
           /\ Branches.dm0.no_qubits = EngineBefore.no_qubits - 1
           /\ Branches.dm1.no_qubits = EngineBefore.no_qubits - 1

\* An engine of 14 qubits in the ground state was given an excited qubit,
\* the caller went on with the engine of 15 qubits, and add_ancilla on it
\* was rejected.
C26_Witness ==
    /\ call.op = "add_ancilla"
    /\ EngineBefore.no_qubits = MaxQubits
    /\ DOMAIN EngineBefore.data.nz = {3 * (4 ^ (MaxQubits - 1))}
    /\ err = "ValueError"

---------------------------------------------------------------------------
(* Properties of the gates.                                                *)

\* The traces of the states an engine starts with.
StartTraces ==
    {One} \cup {Trace([no_qubits |-> n, data |-> DenseState(0, n)]) : n \in UnitaryCounts}

\* C21: hadamard, rotate_y with any angle, cphase on any pair in range and
\* add_ancilla of 0 or 1 leave trace() as it was: the trace after the call
\* (of the engine returned, for add_ancilla) is the trace before it, and so
\* every engine has the trace of a state an engine started with, which is 1
\* for the ground state.
C21_TracePreserved ==
    /\ (call.op \in {"hadamard", "rotate_y", "cphase"} /\ InRange) =>
           /\ err = None
           /\ RatEq(Trace(EngineAfter), Trace(EngineBefore))
    /\ (call.op = "add_ancilla" /\ EngineBefore.no_qubits < MaxQubits) =>
           /\ err = None
           /\ RatEq(Trace(Enlarged), Trace(EngineBefore))
    /\ (call.op = "Density" /\ err = None /\ call.param.data.kind = "None") =>
           RatEq(Trace(Constructed), One)
    /\ \A e \in Engines : \E t \in StartTraces : RatEq(Trace(e), t)

\* A rotation by an angle that is no multiple of a right angle has changed
\* a state of two qubits all of whose entries differ, after another call.
C21_Witness ==
    /\ call.op = "rotate_y"
    /\ call.n = MaxUnitary
    /\ InRange
    /\ call.param.s = 4
    /\ EngineBefore.no_qubits = 2
    /\ Cardinality(DOMAIN EngineBefore.data.nz) = 16
    /\ EngineAfter.data # EngineBefore.data
    /\ ~RatEq(Trace(EngineAfter), One)

\* The last call and the call of this step are the same method on the same
\* engine, both with indices in range.
Repeated(op) ==
    /\ call.op = op
    /\ InRange
    /\ call'.op = op
    /\ call'.dm = call.dm

\* The data after cphase on the pairs of the sequence ps, one after another.
RECURSIVE cphases(_, _)
cphases(data, ps) ==
    IF ps = <<>> THEN data
    ELSE cphases(cphase_kernel(data, ps[1][1], ps[1][2]), Tail(ps))

\* C24: hadamard twice on the same qubit and cphase twice on the same pair
\* of qubits give back the data the engine had, for cphase also when a
\* cphase on a pair of other qubits is applied in between and after; and
\* cphase(a, b) gives the data that cphase(b, a) gives.
C24_SelfInverse ==
    [][/\ (Repeated("hadamard") /\ call'.bits = call.bits) =>
              dms'[call.dm].data = call.pre[call.dm].data
       /\ (/\ Repeated("cphase")
           /\ call'.bits \in {call.bits, <<call.bits[2], call.bits[1]>>}) =>
              dms'[call.dm].data = call.pre[call.dm].data
       /\ call'.op = "cphase" =>
              LET old == call'.pre[call'.dm]
                  new == dms'[call'.dm]
                  a == call'.bits[1]
                  b == call'.bits[2]
                  others == (0..(old.no_qubits - 1)) \ {a, b}
              IN  /\ new.data = cphase_kernel(old.data, b, a)
                  /\ \A c \in others : \A e \in others \ {c} :
                         cphases(new.data, <<<<c, e>>, <<a, b>>, <<c, e>>>>) = old.data]_vars

\* The second cphase on a pair of qubits has brought a state of four
\* qubits, which the first had changed, back to what it was.
C24_Witness ==
    /\ call.op = "cphase"
    /\ call.n = MaxInverse
    /\ EngineBefore.no_qubits = 4
    /\ EngineAfter.data # EngineBefore.data
    /\ EngineAfter.data.nz = DenseState(0, 4).nz

=============================================================================
